---- MODULE Spec2Model ----
(***************************************************************************)
(* Order reconciliation on the Thank You page (ThankYouRefactored.js):     *)
(* the onReady handler, donation processing, recovery of the registration  *)
(* queue from session storage or the PendingRegistrations collection,      *)
(* matching of registrations to order line items, batch save through the   *)
(* transaction manager, and session cleanup.  The checkout page's Pay and  *)
(* Clear handlers feed the queue backup.  The backend web modules          *)
(* sessionManager.jsw, transactionManager.jsw, retryUtils.jsw and          *)
(* errorHandler.jsw are modelled from their documented contracts.          *)
(*                                                                         *)
(* One action is one synchronous stretch of JavaScript: it ends at the     *)
(* next await.  Every awaited call can succeed or reject.                  *)
(***************************************************************************)
EXTENDS Integers, Sequences, FiniteSets, Bags, TLC

\* ---------------------------------------------------------------- bounds
NProcs == 2          \* invocations of the onReady handler (deliveries of the event)
MaxBackups == 1      \* Pay clicks (PendingRegistrations inserts)
MaxQueue == 2        \* length of the session registration queue
MaxHours == 3        \* the clock is read at whole hours 0..MaxHours
MaxAttempts == 2     \* retry policy of the transaction manager's calls
MaxRecords == 2      \* PendingRegistrations records when recovery is studied
MaxIntents == 3      \* registrations handed to the matching function on its own
MaxItems == 2        \* line items handed to the matching function on its own
MaxQuantity == 2     \* quantity of such a line item
MaxFaults == 1       \* awaited calls that fail in one behaviour

Procs == 1..NProcs
Nil == "nil"

\* ------------------------------------------------------------ time (ms)
HourMs == 60 * 60 * 1000
RecencyWindowMs == 2 * 60 * 60 * 1000
CooldownMs == 60 * 1000
FailureThreshold == 5

TimePoints == {h * HourMs : h \in 0..MaxHours}

\* --------------------------------------------------------------- strings
\* A string is a sequence of words; includes is the substring test on it.
Includes(name, part) ==
    \E i \in 1..(Len(name) - Len(part) + 1) :
        SubSeq(name, i, i + Len(part) - 1) = part

\* A value that is not a string (a missing name) is the one-word sequence NoName.
NoName == << "#undefined" >>
IsString(x) == x # NoName

\* A missing number (undefined or null).
Undefined == 0 - 1

\* ------------------------------------------------------------ input data
Reg(player, sport, division, fee) ==
    [playerId |-> player, seasonName |-> "2026.1", sport |-> sport,
     division |-> division, fee |-> fee]

RegMajors == Reg("p1", "Baseball", <<"Majors">>, 150)
RegMinors == Reg("p2", "Baseball", <<"Minors">>, 120)
\* The player of RegMajors again, same season and sport, another division.
RegUpperMinors == Reg("p1", "Baseball", <<"Upper", "Minors">>, 120)

Registrations == {RegMajors, RegMinors, RegUpperMinors}

Identity(r) == <<r.playerId, r.seasonName, r.sport>>

LineItem(name, qty, price, total, product) ==
    [name |-> name, quantity |-> qty, price |-> price, totalPrice |-> total,
     productId |-> product]

DONATION_PRODUCTS == [d10 |-> 10, d20 |-> 20, d50 |-> 50, d100 |-> 100]

IsDonation(li) == li.productId \in DOMAIN DONATION_PRODUCTS

Orders ==
    [o1 |-> [loaded |-> TRUE, _id |-> "o1", buyerId |-> "u1",
             lineItems |-> << LineItem(<<"Baseball", "Majors">>, 1, 150, 150, "reg"),
                              LineItem(<<"Baseball", "Upper", "Minors">>, 1, 120, Undefined, "reg"),
                              LineItem(NoName, 1, 10, 10, "d10") >>],
     o2 |-> [loaded |-> TRUE, _id |-> "o2", buyerId |-> "u1",
             lineItems |-> << LineItem(<<"Softball", "Majors">>, 2, 90, 180, "reg") >>],
     o3 |-> [loaded |-> TRUE, _id |-> Nil, buyerId |-> "u1", lineItems |-> << >>]]

\* getOrder() resolving to nothing.
NoOrder == [loaded |-> FALSE, _id |-> Nil, buyerId |-> Nil, lineItems |-> << >>]

OrderIds == {"o1", "o2"}
OrderInputs == {Orders[k] : k \in DOMAIN Orders} \cup {NoOrder}
CurrentUser == "u1"
\* The site members who may be logged in when Pay is clicked.
Users == {"u1", "u2"}

\* ----------------------------------------------------------------- state
VARIABLES
    regQueue,          \* session storage "regQueue": the buyer's pending registrations
    processedOrders,   \* sessionManager: orders marked processed
    processingLocks,   \* sessionManager: orderId -> 0 (free) or the run holding the lock
    donationSynced,    \* sessionManager: the donation-synced flag
    pendingRegs,       \* collection PendingRegistrations (record _id = index)
    seasonRegs,        \* collection SeasonRegistration (a bag: duplicates would show)
    airtable,          \* records upserted to the external synchronization target
    donations,         \* donations synchronized, a bag of order ids
    syncErrors,        \* collection AirtableSyncErrors (append-only), a bag
    breaker,           \* the circuit breaker named for the synchronization target
    now,               \* the clock, ms
    faults,            \* awaited calls that have failed so far
    completed,         \* orderId -> number of runs that marked it processed
    lastOutcome,       \* orderId -> how the latest run that held its lock ended
    run                \* per invocation: position and local variables

vars == << regQueue, processedOrders, processingLocks, donationSynced, pendingRegs,
           seasonRegs, airtable, donations, syncErrors, breaker, now,
           faults, completed, lastOutcome, run >>

session == << regQueue, processedOrders, processingLocks, donationSynced >>
stores == << pendingRegs, seasonRegs, airtable, donations, syncErrors, breaker >>
history == << completed, lastOutcome >>

\* ------------------------------------------------- sessionManager.jsw
\* getRegQueue(): the stored list.
getRegQueue == regQueue

isDuplicateInQueue(queue, reg) ==
    \E i \in 1..Len(queue) : Identity(queue[i]) = Identity(reg)

isOrderProcessed(orderId) == orderId \in processedOrders

\* acquireProcessingLock(orderId): TRUE iff the lock is free and the order unprocessed.
CanAcquire(orderId) ==
    /\ orderId \notin processedOrders
    /\ processingLocks[orderId] = 0

acquireProcessingLock(p, orderId) == [processingLocks EXCEPT ![orderId] = p]

releaseProcessingLock(p, orderId) == [processingLocks EXCEPT ![orderId] = 0]

\* markOrderProcessed(orderId): sets the marker and releases the lock.
markOrderProcessed(p, orderId) ==
    /\ processedOrders' = processedOrders \cup {orderId}
    /\ processingLocks' = [processingLocks EXCEPT ![orderId] = 0]

\* ------------------------------------------------------------ JSON text
Stringify(queue) == [json |-> queue]
Parse(text) == text.json

\* ------------------------------------------------------------------ run
IdleRun ==
    [pc |-> "idle", order |-> NoOrder, don |-> << >>, queue |-> << >>,
     source |-> "none", since |-> 0, attemptAt |-> 0, cands |-> << >>, claimed |-> 0,
     matched |-> << >>, unmatched |-> << >>, toSave |-> << >>, results |-> << >>,
     target |-> 0,
     \* what this invocation has done so far
     acquired |-> FALSE, outcome |-> "none", wrote |-> FALSE, notified |-> 0,
     loadedEmpty |-> FALSE, batchInvoked |-> FALSE, cleaned |-> FALSE,
     marked |-> FALSE, overlapped |-> {}]

Active(p) == run[p].pc \notin {"idle", "done"}

ClosedBreaker ==
    [state |-> "CLOSED", failureCount |-> 0, successCount |-> 0, nextAttemptTime |-> 0]

Init ==
    /\ regQueue = << >>
    /\ processedOrders = {}
    /\ processingLocks = [o \in OrderIds |-> 0]
    /\ donationSynced = FALSE
    /\ pendingRegs = << >>
    /\ seasonRegs = EmptyBag
    /\ airtable = {}
    /\ donations = EmptyBag
    /\ syncErrors = EmptyBag
    /\ breaker = ClosedBreaker
    /\ now = 0
    /\ faults = 0
    /\ completed = [o \in OrderIds |-> 0]
    /\ lastOutcome = [o \in OrderIds |-> "none"]
    /\ run = [p \in Procs |-> IdleRun]

\* ------------------------------------------------------ the environment
\* Time passes.  The clock is read only against a record's createdAt and the
\* breaker's nextAttemptTime, so it is left alone while neither exists.
Tick ==
    /\ Len(pendingRegs) > 0 \/ breaker.state = "OPEN"
    /\ \E t \in TimePoints : t > now /\ now' = t
    /\ UNCHANGED << session, stores, history, faults, run >>

\* An awaited call may fail while the behaviour's budget of failures lasts.
Fails(failed) ==
    /\ failed => faults < MaxFaults
    /\ faults' = IF failed THEN faults + 1 ELSE faults

\* The buyer is on the registration or checkout page, not on the Thank You page.
OnFormPages == \A p \in Procs : ~Active(p)

\* The submit flow without the duplicate re-check: addToRegQueue pushes the item.
AddToRegQueueUnchecked(reg) ==
    /\ OnFormPages
    /\ Len(regQueue) < MaxQueue
    /\ regQueue' = Append(regQueue, reg)
    /\ UNCHANGED << processedOrders, processingLocks, donationSynced, stores, now,
                    history, faults, run >>

\* handleRegisterClick: checkForDuplicates rejects a registration whose identity
\* is already queued; otherwise addToRegQueue appends it.
AddToRegQueue(reg) ==
    /\ OnFormPages
    /\ Len(regQueue) < MaxQueue
    /\ ~isDuplicateInQueue(getRegQueue, reg)
    /\ regQueue' = Append(regQueue, reg)
    /\ UNCHANGED << processedOrders, processingLocks, donationSynced, stores, now,
                    history, faults, run >>

\* Checkout page, Pay: back the queue up to PendingRegistrations before checkout.
\* The insert can fail; the handler warns and goes on to the cart.
PayClickAs(userId, insertOk, max) ==
    /\ OnFormPages
    /\ Len(getRegQueue) > 0
    /\ Len(pendingRegs) < max
    /\ pendingRegs' =
         IF insertOk
         THEN Append(pendingRegs,
                     [userId |-> userId, registrations |-> Stringify(getRegQueue),
                      status |-> "pending", createdAt |-> now])
         ELSE pendingRegs
    /\ UNCHANGED << session, seasonRegs, airtable, donations, syncErrors, breaker,
                    now, history, faults, run >>

PayClick(insertOk) == PayClickAs(CurrentUser, insertOk, MaxBackups)

\* Checkout page, Clear: setRegQueue([]).  Session storage is also lost
\* when the payment redirect opens the Thank You page in a new session.
ClearRegistrations ==
    /\ OnFormPages
    /\ regQueue # << >>
    /\ regQueue' = << >>
    /\ UNCHANGED << processedOrders, processingLocks, donationSynced, stores, now,
                    history, faults, run >>

\* ------------------------------------------- matchRegistrationsToLineItems
RECURSIVE BuildSlots(_)
BuildSlots(lineItems) ==
    IF lineItems = << >> THEN << >>
    ELSE LET li == Head(lineItems)
             qty == IF li.quantity = 0 \/ li.quantity = Undefined THEN 1 ELSE li.quantity
         IN  [i \in 1..qty |-> li] \o BuildSlots(Tail(lineItems))

\* The slot test without the used flag.
SlotFitsUsed(slots, used, i, reg) ==
    /\ IsString(slots[i].name)
    /\ Includes(slots[i].name, reg.division)

SlotFits(slots, used, i, reg) ==
    /\ i \notin used
    /\ IsString(slots[i].name)
    /\ Includes(slots[i].name, reg.division)

\* The search taking the last fitting slot.
FindLastIndex(slots, used, reg) ==
    IF \E i \in 1..Len(slots) : SlotFits(slots, used, i, reg)
    THEN CHOOSE i \in 1..Len(slots) :
            /\ SlotFits(slots, used, i, reg)
            /\ \A j \in (i + 1)..Len(slots) : ~SlotFits(slots, used, j, reg)
    ELSE 0

\* slots.findIndex(...): the first fitting slot, 0 for -1.
FindIndex(slots, used, reg) ==
    IF \E i \in 1..Len(slots) : SlotFits(slots, used, i, reg)
    THEN CHOOSE i \in 1..Len(slots) :
            /\ SlotFits(slots, used, i, reg)
            /\ \A j \in 1..(i - 1) : ~SlotFits(slots, used, j, reg)
    ELSE 0

RECURSIVE MatchLoop(_, _, _, _, _)
MatchLoop(regs, slots, used, matched, unmatched) ==
    IF regs = << >> THEN [matched |-> matched, unmatched |-> unmatched]
    ELSE LET reg == Head(regs)
             idx == FindIndex(slots, used, reg)
         IN  IF idx # 0
             THEN MatchLoop(Tail(regs), slots, used \cup {idx},
                            Append(matched, [reg |-> reg, lineItem |-> slots[idx]]),
                            unmatched)
             ELSE MatchLoop(Tail(regs), slots, used, matched, Append(unmatched, reg))

matchRegistrationsToLineItems(queue, lineItems) ==
    MatchLoop(queue, BuildSlots(lineItems), {}, << >>, << >>)

\* registrationsToSave: the matched registration with the amount paid.
PaidAmount(li) ==
    IF li.totalPrice # Undefined THEN li.totalPrice
    ELSE (IF li.price = Undefined THEN 0 ELSE li.price)
         * (IF li.quantity = 0 \/ li.quantity = Undefined THEN 1 ELSE li.quantity)

RegistrationsToSave(matched, orderId) ==
    [i \in 1..Len(matched) |->
        [playerId |-> matched[i].reg.playerId, seasonName |-> matched[i].reg.seasonName,
         sport |-> matched[i].reg.sport, division |-> matched[i].reg.division,
         fee |-> PaidAmount(matched[i].lineItem), orderId |-> orderId]]

\* cleanupSession: the queue entries that share no identity with a matched one.
Remaining(queue, matched) ==
    SelectSeq(queue, LAMBDA r :
        ~\E i \in 1..Len(matched) : Identity(matched[i].reg) = Identity(r))

\* --------------------------------------------------------- how a run ends
\* The handler has returned: its local variables are gone, what it did is kept.
Ended(r, outcome) ==
    [r EXCEPT !.pc = "done", !.outcome = outcome, !.don = << >>, !.queue = << >>,
              !.cands = << >>, !.matched = << >>, !.unmatched = << >>,
              !.toSave = << >>, !.results = << >>, !.target = 0, !.since = 0,
              !.attemptAt = 0]

\* An await inside the inner try rejects: the catch releases the lock and rethrows.
ExitThrow(p, r) ==
    /\ run' = [run EXCEPT ![p] = Ended(r, "threw")]
    /\ processingLocks' = releaseProcessingLock(p, r.order._id)
    /\ lastOutcome' = [lastOutcome EXCEPT ![r.order._id] = "threw"]
    /\ UNCHANGED << processedOrders, completed >>

\* A return statement inside the inner try that marks the order processed.
ExitReturnMarking(p, r, outcome) ==
    /\ run' = [run EXCEPT ![p] = Ended(r, outcome)]
    /\ markOrderProcessed(p, r.order._id)
    /\ lastOutcome' = [lastOutcome EXCEPT ![r.order._id] = outcome]
    /\ UNCHANGED completed

\* A return statement inside the inner try.
ExitReturn(p, r, outcome) ==
    /\ run' = [run EXCEPT ![p] = Ended(r, outcome)]
    /\ lastOutcome' = [lastOutcome EXCEPT ![r.order._id] = outcome]
    /\ UNCHANGED << processedOrders, processingLocks, completed >>

\* The end of the inner try calling releaseProcessingLock in place of
\* markOrderProcessed.
ExitReleased(p, r) ==
    /\ run' = [run EXCEPT ![p] = Ended([r EXCEPT !.marked = TRUE], "completed")]
    /\ processingLocks' = releaseProcessingLock(p, r.order._id)
    /\ processedOrders' = processedOrders
    /\ lastOutcome' = [lastOutcome EXCEPT ![r.order._id] = "completed"]
    /\ completed' = [completed EXCEPT ![r.order._id] = @ + 1]

\* The end of the inner try: markOrderProcessed(orderId).
ExitProcessed(p, r) ==
    /\ run' = [run EXCEPT ![p] = Ended([r EXCEPT !.marked = TRUE], "completed")]
    /\ markOrderProcessed(p, r.order._id)
    /\ lastOutcome' = [lastOutcome EXCEPT ![r.order._id] = "completed"]
    /\ completed' = [completed EXCEPT ![r.order._id] = @ + 1]

\* The run goes on to its next await.
Continue(p, r) ==
    /\ run' = [run EXCEPT ![p] = r]
    /\ UNCHANGED << processedOrders, processingLocks, completed, lastOutcome >>

\* What onReady does, without an await, once loadRegistrationQueue has returned.
AfterLoad(p, r, queue, source) ==
    LET r1 == [r EXCEPT !.queue = queue, !.source = source, !.cands = << >>,
                        !.attemptAt = 0,
                        !.loadedEmpty = (Len(queue) = 0)]
        m == matchRegistrationsToLineItems(queue, r.order.lineItems)
    IN  IF Len(queue) = 0
        THEN Continue(p, [r1 EXCEPT !.pc = "nodata"])
        ELSE IF Len(m.matched) = 0
        THEN ExitReturn(p, [r1 EXCEPT !.matched = m.matched, !.unmatched = m.unmatched],
                        "nomatch")
        ELSE Continue(p, [r1 EXCEPT !.pc = "batch", !.matched = m.matched,
                                    !.unmatched = m.unmatched,
                                    !.toSave = RegistrationsToSave(m.matched, r.order._id),
                                    !.batchInvoked = TRUE])

\* ------------------------------------------------------ the collections
SyncError(orderId, errorType, who) ==
    [orderId |-> orderId, errorType |-> errorType, who |-> who]

LogError(orderId, errorType, who) ==
    syncErrors (+) SetToBag({SyncError(orderId, errorType, who)})

\* query(PendingRegistrations).eq(userId).eq(status).ge(createdAt, twoHoursAgo)
\*   .descending(createdAt): the record ids, latest first.
RECURSIVE PendingQueryFrom(_, _, _, _)
PendingQueryFrom(i, buyerId, status, since) ==
    IF i = 0 THEN << >>
    ELSE LET rest == PendingQueryFrom(i - 1, buyerId, status, since)
             rec == pendingRegs[i]
         IN  IF /\ rec.userId = buyerId
                /\ rec.status = status
                /\ rec.createdAt >= since
             THEN << i >> \o rest
             ELSE rest

PendingQuery(buyerId, status, since) ==
    PendingQueryFrom(Len(pendingRegs), buyerId, status, since)

\* The threshold one hour too far back.
threeHoursAgo == now - RecencyWindowMs - HourMs

\* new Date(Date.now() - 2 * 60 * 60 * 1000), computed when the query is built.
twoHoursAgo == now - RecencyWindowMs

\* query(SeasonRegistration).eq(orderId).limit(1): is there an item?
OrderHasRegistration(orderId) ==
    \E rec \in BagToSet(seasonRegs) : rec.orderId = orderId

\* ------------------------------------------------------------- $w.onReady
\* The page loads: the handler starts and awaits thankYou.getOrder().
OnReady(p) ==
    /\ run[p].pc = "idle"
    /\ \A q \in Procs : q < p => run[q].pc # "idle"   \* invocations are numbered as they start
    /\ run' = [run EXCEPT ![p] = [IdleRun EXCEPT !.pc = "getOrder"]]
    /\ UNCHANGED << session, stores, now, faults, completed, lastOutcome >>

DonationItems(order) ==
    SelectSeq([i \in 1..Len(order.lineItems) |-> i],
              LAMBDA i : IsDonation(order.lineItems[i]))

\* Runs with the same order that are under way together.
Together(p, order) ==
    {q \in Procs \ {p} : Active(q) /\ run[q].pc # "getOrder"
                         /\ run[q].order._id = order._id}

\* getOrder() resolves (a rejection ends the handler like a missing order);
\* then, without an await: the order checks, the processed marker, the lock, and
\* processDonations up to its first await.
CheckOrderWith(p, order, processed, free) ==
    /\ run[p].pc = "getOrder"
    /\ LET r == [run[p] EXCEPT !.order = order]
           \* the runs as they are once p has taken the step to rp
           met(rp) == [q \in Procs |->
                         IF q = p THEN [rp EXCEPT !.overlapped = Together(p, order)]
                         ELSE IF q \in Together(p, order)
                         THEN [run[q] EXCEPT !.overlapped = @ \cup {p}]
                         ELSE run[q]]
       IN  IF ~order.loaded \/ order._id = Nil
           THEN /\ run' = [run EXCEPT ![p] = [r EXCEPT !.pc = "done",
                                                       !.outcome = "badorder"]]
                /\ UNCHANGED processingLocks
           ELSE IF processed
           THEN /\ run' = met([r EXCEPT !.pc = "done", !.outcome = "processed"])
                /\ UNCHANGED processingLocks
           ELSE IF ~free
           THEN /\ run' = met([r EXCEPT !.pc = "done", !.outcome = "locked"])
                /\ UNCHANGED processingLocks
           ELSE /\ processingLocks' = acquireProcessingLock(p, order._id)
                /\ run' = met([r EXCEPT !.pc = "donations", !.acquired = TRUE,
                                        !.don = IF donationSynced THEN << >>
                                                ELSE DonationItems(order)])
    /\ UNCHANGED << regQueue, processedOrders, donationSynced, stores, now, history,
                    faults >>

\* The handler without the test of the order: whatever getOrder resolved to
\* goes on to processDonations.
CheckOrderUnvalidated(p, order) ==
    /\ run[p].pc = "getOrder"
    /\ run' = [run EXCEPT ![p] = [@ EXCEPT !.order = order, !.pc = "donations",
                                           !.acquired = TRUE,
                                           !.don = DonationItems(order)]]
    /\ UNCHANGED << session, stores, now, history, faults >>

\* The handler without the lock test: the order goes on whenever it is unprocessed.
CheckOrderUnlocked(p, order) ==
    CheckOrderWith(p, order, isOrderProcessed(order._id), TRUE)

\* The handler with one lock for all orders: it goes on only while no order
\* is locked.
CheckOrderOneLock(p, order) ==
    CheckOrderWith(p, order, isOrderProcessed(order._id),
                   /\ order._id \notin processedOrders
                   /\ \A o \in OrderIds : processingLocks[o] = 0)

CheckOrder(p, order) ==
    CheckOrderWith(p, order, isOrderProcessed(order._id), CanAcquire(order._id))

\* processDonations, one donation line item: saveDonation, then the audit insert
\* of the failure branch or of the catch block.
\*   "ok"          saveDonation succeeded
\*   "failed"      saveDonation returned failure, logged
\*   "caught"      saveDonation or the first audit insert rejected, logged in the catch
\*   "threw"       the audit insert of the catch block rejected
DonationItem(p, result) ==
    /\ run[p].pc = "donations"
    /\ run[p].don # << >>
    /\ LET r == [run[p] EXCEPT !.don = Tail(@)]
           orderId == run[p].order._id
       IN  CASE result = "ok" ->
                  /\ donations' = donations (+) SetToBag({orderId})
                  /\ donationSynced' = TRUE
                  /\ syncErrors' = syncErrors
                  /\ Continue(p, [r EXCEPT !.wrote = TRUE])
             [] result = "failed" ->
                  /\ syncErrors' = LogError(orderId, "DONATION_SYNC_FAILED", "donor")
                  /\ donationSynced' = TRUE
                  /\ donations' = donations
                  /\ Continue(p, r)
             [] result = "caught" ->
                  /\ syncErrors' = LogError(orderId, "DONATION_SYNC_EXCEPTION", "donor")
                  /\ UNCHANGED << donationSynced, donations >>
                  /\ Continue(p, r)
             [] result = "threw" ->
                  /\ UNCHANGED << donationSynced, donations, syncErrors >>
                  /\ ExitThrow(p, r)
    /\ Fails(result # "ok")
    /\ UNCHANGED << regQueue, pendingRegs, seasonRegs, airtable, breaker, now >>

\* loadRegistrationQueue, STEP 1 and the start of STEP 2: session storage first,
\* then the buyer id, then the PendingRegistrations query is sent.
LoadSession(p) ==
    /\ run[p].pc = "donations"
    /\ run[p].don = << >>
    /\ LET queue == getRegQueue
       IN  IF Len(queue) > 0
           THEN AfterLoad(p, run[p], queue, "session")
           ELSE IF run[p].order.buyerId = Nil
           THEN AfterLoad(p, run[p], << >>, "none")
           ELSE Continue(p, [run[p] EXCEPT !.pc = "loadQuery", !.since = twoHoursAgo,
                                         !.attemptAt = now])
    /\ UNCHANGED << regQueue, donationSynced, stores, now, faults >>

\* An await inside loadRegistrationQueue's try rejected: the catch block inserts a
\* CMS_RETRIEVAL_FAILED audit record and the function returns an empty queue;
\* when that insert rejects too, the error leaves the function.
LoadCaught(p, r, logged) ==
    IF logged
    THEN /\ syncErrors' = LogError(r.order._id, "CMS_RETRIEVAL_FAILED", "buyer")
         /\ AfterLoad(p, r, << >>, "none")
    ELSE /\ syncErrors' = syncErrors
         /\ ExitThrow(p, r)

\* The PendingRegistrations query answers.
LoadQuery(p, result) ==
    /\ run[p].pc = "loadQuery"
    /\ LET items == PendingQuery(run[p].order.buyerId, "pending", run[p].since)
       IN  CASE result = "ok" ->
                  /\ IF items = << >>
                     THEN AfterLoad(p, run[p], << >>, "none")
                     ELSE Continue(p, [run[p] EXCEPT !.pc = "loadCheck", !.cands = items])
                  /\ syncErrors' = syncErrors
             [] result = "caught" -> LoadCaught(p, run[p], TRUE)
             [] result = "threw" -> LoadCaught(p, run[p], FALSE)
    /\ Fails(result # "ok")
    /\ UNCHANGED << regQueue, donationSynced, pendingRegs, seasonRegs, airtable,
                    donations, breaker, now >>

\* For the next pending record: the SeasonRegistration query for this order
\* answers; an unprocessed order takes the record and sends the status update.
LoadCheck(p, result) ==
    /\ run[p].pc = "loadCheck"
    /\ LET pending == Head(run[p].cands)
           r == [run[p] EXCEPT !.cands = Tail(@)]
       IN  CASE result = "ok" ->
                  /\ IF ~OrderHasRegistration(run[p].order._id)
                     THEN Continue(p, [r EXCEPT !.pc = "loadUpdate", !.claimed = pending,
                                         !.queue = Parse(pendingRegs[pending].registrations)])
                     ELSE IF r.cands = << >>
                     THEN AfterLoad(p, r, << >>, "none")
                     ELSE Continue(p, r)
                  /\ syncErrors' = syncErrors
             [] result = "caught" -> LoadCaught(p, [r EXCEPT !.queue = << >>], TRUE)
             [] result = "threw" -> LoadCaught(p, [r EXCEPT !.queue = << >>], FALSE)
    /\ Fails(result # "ok")
    /\ UNCHANGED << regQueue, donationSynced, pendingRegs, seasonRegs, airtable,
                    donations, breaker, now >>

\* The update of the record to "processing" answers.
LoadUpdate(p, result) ==
    /\ run[p].pc = "loadUpdate"
    /\ CASE result = "ok" ->
              /\ pendingRegs' = [pendingRegs EXCEPT ![run[p].claimed].status = "processing"]
              /\ syncErrors' = syncErrors
              /\ AfterLoad(p, [run[p] EXCEPT !.wrote = TRUE], run[p].queue, "cms")
         [] result = "caught" ->
              /\ pendingRegs' = pendingRegs
              /\ LoadCaught(p, [run[p] EXCEPT !.claimed = 0], TRUE)
         [] result = "threw" ->
              /\ pendingRegs' = pendingRegs
              /\ LoadCaught(p, [run[p] EXCEPT !.claimed = 0], FALSE)
    /\ Fails(result # "ok")
    /\ UNCHANGED << regQueue, donationSynced, seasonRegs, airtable, donations, breaker,
                    now >>

\* The empty-queue branch returning without the call of handleNoRegistrationData.
NoRegistrationDataSilent(p, ok) ==
    /\ run[p].pc = "nodata"
    /\ IF ok THEN ExitReturn(p, run[p], "nodata") ELSE ExitThrow(p, run[p])
    /\ Fails(~ok)
    /\ UNCHANGED << regQueue, donationSynced, stores, now >>

\* No registration data: handleNoRegistrationData(order) is awaited, then return.
NoRegistrationData(p, ok) ==
    /\ run[p].pc = "nodata"
    /\ LET r == [run[p] EXCEPT !.notified = @ + 1]
       IN  IF ok THEN ExitReturn(p, r, "nodata") ELSE ExitThrow(p, r)
    /\ Fails(~ok)
    /\ UNCHANGED << regQueue, donationSynced, stores, now >>

\* ------------------------------------------------------- retryUtils.jsw
AttemptOutcomes == {"ok", "transient", "fatal"}
AttemptSeqs == [1..MaxAttempts -> AttemptOutcomes]

\* retry(operation, {maxAttempts}): attempt k of an operation whose attempts end
\* as outs[1], outs[2], ...; only a transient error is retried.
RECURSIVE Retry(_, _)
Retry(outs, k) ==
    IF outs[k] = "ok" THEN [result |-> "ok", attempts |-> k]
    ELSE IF outs[k] = "fatal" THEN [result |-> "fatal", attempts |-> k]
    ELSE IF k = Len(outs) THEN [result |-> "RetriesExhausted", attempts |-> k]
    ELSE Retry(outs, k + 1)

\* CircuitBreaker.execute, the gate: a call is let through in CLOSED, and in
\* OPEN once nextAttemptTime has passed, as the one trial call of HALF_OPEN.
\* The gate letting every call through while a trial is outstanding.
BreakerAdmitInHalfOpen(cb, t) ==
    IF cb.state = "OPEN" /\ t < cb.nextAttemptTime
    THEN [admitted |-> FALSE, cb |-> cb]
    ELSE IF cb.state = "OPEN"
    THEN [admitted |-> TRUE, cb |-> [cb EXCEPT !.state = "HALF_OPEN"]]
    ELSE [admitted |-> TRUE, cb |-> cb]

\* The gate letting a call through while the cooldown is running.
BreakerAdmitInCooldown(cb, t) ==
    IF cb.state = "OPEN"
    THEN [admitted |-> TRUE, cb |-> [cb EXCEPT !.state = "HALF_OPEN"]]
    ELSE IF cb.state = "HALF_OPEN"
    THEN [admitted |-> FALSE, cb |-> cb]
    ELSE [admitted |-> TRUE, cb |-> cb]

BreakerAdmit(cb, t) ==
    IF cb.state = "OPEN" /\ t < cb.nextAttemptTime
    THEN [admitted |-> FALSE, cb |-> cb]
    ELSE IF cb.state = "OPEN"
    THEN [admitted |-> TRUE, cb |-> [cb EXCEPT !.state = "HALF_OPEN"]]
    ELSE IF cb.state = "HALF_OPEN"
    THEN [admitted |-> FALSE, cb |-> cb]
    ELSE [admitted |-> TRUE, cb |-> cb]

\* CircuitBreaker.execute, after the operation: a success closes the breaker
\* and resets its counters; a failure counts, and opens the breaker when it is
\* the trial's or the FailureThreshold-th in a row.
BreakerSettle(cb, t, out) ==
    IF out = "ok"
    THEN ClosedBreaker
    ELSE IF cb.state = "HALF_OPEN" \/ cb.failureCount + 1 >= FailureThreshold
    THEN [state |-> "OPEN",
          failureCount |-> IF cb.state = "HALF_OPEN" THEN cb.failureCount
                           ELSE cb.failureCount + 1,
          successCount |-> 0, nextAttemptTime |-> t + CooldownMs]
    ELSE [cb EXCEPT !.failureCount = @ + 1]

\* CircuitBreaker.execute(operation) at time t, the operation ending as out.
BreakerExecute(cb, t, out) ==
    LET a == BreakerAdmit(cb, t)
    IN  IF a.admitted
        THEN [cb |-> BreakerSettle(a.cb, t, out), result |-> out]
        ELSE [cb |-> cb, result |-> "CircuitOpen"]

\* retry(() => breaker.execute(upsert)) with CircuitOpen retried like a
\* transient error.
RECURSIVE RetryThroughOpenBreaker(_, _, _, _)
RetryThroughOpenBreaker(cb, t, outs, k) ==
    LET e == BreakerExecute(cb, t, outs[k])
    IN  IF e.result \in {"ok", "fatal"}
        THEN [cb |-> e.cb, result |-> e.result, attempts |-> k]
        ELSE IF k = Len(outs)
        THEN [cb |-> e.cb, result |-> "RetriesExhausted", attempts |-> k]
        ELSE RetryThroughOpenBreaker(e.cb, t, outs, k + 1)

\* retry(() => breaker.execute(upsert)): CircuitOpen is not retried.
RECURSIVE RetryThroughBreaker(_, _, _, _)
RetryThroughBreaker(cb, t, outs, k) ==
    LET e == BreakerExecute(cb, t, outs[k])
    IN  IF e.result \in {"ok", "CircuitOpen", "fatal"}
        THEN [cb |-> e.cb, result |-> e.result, attempts |-> k]
        ELSE IF k = Len(outs)
        THEN [cb |-> e.cb, result |-> "RetriesExhausted", attempts |-> k]
        ELSE RetryThroughBreaker(e.cb, t, outs, k + 1)

\* ------------------------------------------------ transactionManager.jsw
\* batchSaveRegistrations(registrations, orderId) calls saveRegistration for each
\* registration in turn.  saveRegistration: the duplicate check, the CMS insert
\* under retry, then the Airtable upsert under retry and the breaker.
CurrentReg(r) == r.toSave[Len(r.results) + 1]

Key(reg) == << reg.orderId, reg.playerId, reg.seasonName, reg.sport >>

HasRecord(reg) == \E rec \in BagToSet(seasonRegs) : Key(rec) = Key(reg)

\* What saveRegistration did for one registration:
\*   kind    "full" (isFullSuccess), "partial" (isPartialSuccess) or "failed"
\*   insert  "existing" (duplicate found), "ok" or "failed"
\*   sync    "none" (not called), "ok" or "failed"
Result(kind, insert, sync) == [kind |-> kind, insert |-> insert, sync |-> sync]

\* saveRegistration has returned res: the loop goes to the next registration,
\* or the batch is over.
Saved(r, res) ==
    [r EXCEPT !.results = Append(@, res),
              !.pc = IF Len(r.results) + 1 < Len(r.toSave) THEN "batch" ELSE "return"]

\* The duplicate check answers: an existing record is a success, nothing is written.
SaveCheck(p) ==
    /\ run[p].pc = "batch"
    /\ IF HasRecord(CurrentReg(run[p]))
       THEN Continue(p, Saved(run[p], Result("full", "existing", "none")))
       ELSE Continue(p, [run[p] EXCEPT !.pc = "insert"])
    /\ UNCHANGED << regQueue, donationSynced, stores, now, faults >>

\* Step 1 with a failed write ending the whole batch: the siblings are skipped.
SaveInsertAborting(p, outs) ==
    /\ run[p].pc = "insert"
    /\ LET reg == CurrentReg(run[p])
       IN  IF Retry(outs, 1).result = "ok"
           THEN /\ seasonRegs' = seasonRegs (+) SetToBag({reg})
                /\ syncErrors' = syncErrors
                /\ Continue(p, [run[p] EXCEPT !.pc = "sync", !.wrote = TRUE])
           ELSE /\ seasonRegs' = seasonRegs
                /\ syncErrors' = LogError(reg.orderId, "CMS_INSERT_FAILED", Identity(reg))
                /\ Continue(p, [Saved(run[p], Result("failed", "failed", "none"))
                                  EXCEPT !.pc = "return"])
    /\ Fails(outs[1] # "ok")
    /\ UNCHANGED << regQueue, donationSynced, pendingRegs, airtable, donations, breaker,
                    now >>

\* Step 1 going on to the synchronization whether or not the write succeeded.
SaveInsertThenSync(p, outs) ==
    /\ run[p].pc = "insert"
    /\ LET reg == CurrentReg(run[p])
       IN  /\ seasonRegs' = IF Retry(outs, 1).result = "ok"
                            THEN seasonRegs (+) SetToBag({reg}) ELSE seasonRegs
           /\ syncErrors' = IF Retry(outs, 1).result = "ok" THEN syncErrors
                            ELSE LogError(reg.orderId, "CMS_INSERT_FAILED", Identity(reg))
           /\ Continue(p, [run[p] EXCEPT !.pc = "sync", !.wrote = TRUE])
    /\ Fails(outs[1] # "ok")
    /\ UNCHANGED << regQueue, donationSynced, pendingRegs, airtable, donations, breaker,
                    now >>

\* Step 1, the authoritative write: on failure the error is logged and no
\* synchronization follows.
SaveInsert(p, outs) ==
    /\ run[p].pc = "insert"
    /\ LET reg == CurrentReg(run[p])
       IN  IF Retry(outs, 1).result = "ok"
           THEN /\ seasonRegs' = seasonRegs (+) SetToBag({reg})
                /\ syncErrors' = syncErrors
                /\ Continue(p, [run[p] EXCEPT !.pc = "sync", !.wrote = TRUE])
           ELSE /\ seasonRegs' = seasonRegs
                /\ syncErrors' = LogError(reg.orderId, "CMS_INSERT_FAILED", Identity(reg))
                /\ Continue(p, Saved(run[p], Result("failed", "failed", "none")))
    /\ Fails(outs[1] # "ok")
    /\ UNCHANGED << regQueue, donationSynced, pendingRegs, airtable, donations, breaker,
                    now >>

\* Step 2 undoing the authoritative write when the synchronization fails.
SaveSyncRollingBack(p, outs) ==
    /\ run[p].pc = "sync"
    /\ LET reg == CurrentReg(run[p])
           e == RetryThroughBreaker(breaker, now, outs, 1)
       IN  /\ breaker' = e.cb
           /\ IF e.result = "ok"
              THEN /\ airtable' = airtable \cup {Key(reg)}
                   /\ UNCHANGED << syncErrors, seasonRegs >>
                   /\ Continue(p, Saved(run[p], Result("full", "ok", "ok")))
              ELSE /\ airtable' = airtable
                   /\ seasonRegs' = seasonRegs (-) SetToBag({reg})
                   /\ syncErrors' =
                        LogError(reg.orderId, "AIRTABLE_SYNC_FAILED", Identity(reg))
                   /\ Continue(p, Saved(run[p], Result("failed", "ok", "failed")))
    /\ Fails(outs[1] # "ok")
    /\ UNCHANGED << regQueue, donationSynced, pendingRegs, donations, now >>

\* Step 2, the synchronization: on failure the result is a partial success and a
\* SyncErrorRecord is appended.
SaveSync(p, outs) ==
    /\ run[p].pc = "sync"
    /\ LET reg == CurrentReg(run[p])
           e == RetryThroughBreaker(breaker, now, outs, 1)
       IN  /\ breaker' = e.cb
           /\ IF e.result = "ok"
              THEN /\ airtable' = airtable \cup {Key(reg)}
                   /\ syncErrors' = syncErrors
                   /\ Continue(p, Saved(run[p], Result("full", "ok", "ok")))
              ELSE /\ airtable' = airtable
                   /\ syncErrors' =
                        LogError(reg.orderId, "AIRTABLE_SYNC_FAILED", Identity(reg))
                   /\ Continue(p, Saved(run[p], Result("partial", "ok", "failed")))
    /\ Fails(outs[1] # "ok")
    /\ UNCHANGED << regQueue, donationSynced, pendingRegs, seasonRegs, donations, now >>

\* {total, successful, partial, failed}
Count(results, kind) == Cardinality({i \in 1..Len(results) : results[i].kind = kind})

BatchResult(r) ==
    [total |-> Len(r.toSave), successful |-> Count(r.results, "full"),
     partial |-> Count(r.results, "partial"), failed |-> Count(r.results, "failed")]

\* The awaited batchSaveRegistrations call rejects.
BatchThrow(p) ==
    /\ run[p].pc \in {"batch", "insert", "sync", "return"}
    /\ ExitThrow(p, run[p])
    /\ Fails(TRUE)
    /\ UNCHANGED << regQueue, donationSynced, stores, now >>

\* batchSaveRegistrations has returned; without an await: cleanupSession filters
\* the loaded queue and stores it, and for a queue from the CMS sends the query
\* for the record in "processing"; otherwise markOrderProcessed.
\* cleanupSession looking for a record in "processing" whatever the source.
BatchReturnAnySource(p) ==
    /\ run[p].pc = "return"
    /\ regQueue' = Remaining(run[p].queue, run[p].matched)
    /\ LET r == [run[p] EXCEPT !.cleaned = TRUE, !.wrote = TRUE]
       IN  IF r.order.buyerId # Nil
           THEN Continue(p, [r EXCEPT !.pc = "cleanQuery", !.since = twoHoursAgo])
           ELSE ExitProcessed(p, r)
    /\ UNCHANGED << donationSynced, stores, now, faults >>

BatchReturn(p) ==
    /\ run[p].pc = "return"
    /\ regQueue' = Remaining(run[p].queue, run[p].matched)
    /\ LET r == [run[p] EXCEPT !.cleaned = TRUE, !.wrote = TRUE]
       IN  IF r.source = "cms" /\ r.order.buyerId # Nil
           THEN Continue(p, [r EXCEPT !.pc = "cleanQuery", !.since = twoHoursAgo])
           ELSE ExitProcessed(p, r)
    /\ UNCHANGED << donationSynced, stores, now, faults >>

\* cleanupSession: the query for the latest record in "processing" answers
\* (limit 1); a rejection is logged and the run goes on.
CleanQuery(p, ok) ==
    /\ run[p].pc = "cleanQuery"
    /\ LET items == PendingQuery(run[p].order.buyerId, "processing", run[p].since)
       IN  IF ok /\ items # << >>
           THEN Continue(p, [run[p] EXCEPT !.pc = "cleanUpdate", !.target = Head(items)])
           ELSE ExitProcessed(p, run[p])
    /\ Fails(~ok)
    /\ UNCHANGED << regQueue, donationSynced, stores, now >>

\* cleanupSession: the update to "completed" answers; then markOrderProcessed.
CleanUpdate(p, ok) ==
    /\ run[p].pc = "cleanUpdate"
    /\ pendingRegs' = IF ok
                      THEN [pendingRegs EXCEPT ![run[p].target].status = "completed"]
                      ELSE pendingRegs
    /\ ExitProcessed(p, run[p])
    /\ Fails(~ok)
    /\ UNCHANGED << regQueue, donationSynced, seasonRegs, airtable, donations, syncErrors,
                    breaker, now >>

\* ------------------------------------------------------- specification
AwaitResults == {"ok", "caught", "threw"}

Next ==
    \/ Tick
    \/ \E reg \in Registrations : AddToRegQueue(reg)
    \/ \E ok \in BOOLEAN : PayClick(ok)
    \/ ClearRegistrations
    \/ \E p \in Procs : OnReady(p)
    \/ \E p \in Procs, order \in OrderInputs : CheckOrder(p, order)
    \/ \E p \in Procs, result \in {"ok", "failed", "caught", "threw"} : DonationItem(p, result)
    \/ \E p \in Procs : LoadSession(p)
    \/ \E p \in Procs, result \in AwaitResults : LoadQuery(p, result)
    \/ \E p \in Procs, result \in AwaitResults : LoadCheck(p, result)
    \/ \E p \in Procs, result \in AwaitResults : LoadUpdate(p, result)
    \/ \E p \in Procs, ok \in BOOLEAN : NoRegistrationData(p, ok)
    \/ \E p \in Procs : SaveCheck(p)
    \/ \E p \in Procs, outs \in AttemptSeqs : SaveInsert(p, outs)
    \/ \E p \in Procs, outs \in AttemptSeqs : SaveSync(p, outs)
    \/ \E p \in Procs : BatchThrow(p)
    \/ \E p \in Procs : BatchReturn(p)
    \/ \E p \in Procs, ok \in BOOLEAN : CleanQuery(p, ok)
    \/ \E p \in Procs, ok \in BOOLEAN : CleanUpdate(p, ok)

Spec == Init /\ [][Next]_vars

\* ------------------------------------------- recovery from the backup store
\* The same handlers with every awaited call succeeding, one registration to
\* queue, up to MaxRecords Pay clicks, and PendingRegistrations also holding
\* another user's records.
OkAttempts == [i \in 1..MaxAttempts |-> "ok"]

RecoveryNext ==
    \/ Tick
    \/ AddToRegQueue(RegMajors)
    \/ \E userId \in Users : PayClickAs(userId, TRUE, MaxRecords)
    \/ ClearRegistrations
    \/ \E p \in Procs : OnReady(p)
    \/ \E p \in Procs, o \in OrderIds : CheckOrder(p, Orders[o])
    \/ \E p \in Procs : DonationItem(p, "ok")
    \/ \E p \in Procs : LoadSession(p)
    \/ \E p \in Procs : LoadQuery(p, "ok")
    \/ \E p \in Procs : LoadCheck(p, "ok")
    \/ \E p \in Procs : LoadUpdate(p, "ok")
    \/ \E p \in Procs : NoRegistrationData(p, TRUE)
    \/ \E p \in Procs : SaveCheck(p)
    \/ \E p \in Procs : SaveInsert(p, OkAttempts)
    \/ \E p \in Procs : SaveSync(p, OkAttempts)
    \/ \E p \in Procs : BatchReturn(p)
    \/ \E p \in Procs : CleanQuery(p, TRUE)
    \/ \E p \in Procs : CleanUpdate(p, TRUE)

RecoverySpec == Init /\ [][RecoveryNext]_vars

\* ------------------------------- matchRegistrationsToLineItems on its own
\* The function is called with a queue of up to MaxIntents registrations and an
\* order of up to MaxItems line items; quantity is absent or a positive count.
MatchDivisions == { <<"Majors">>, <<"Minors">>, <<"Upper", "Minors">> }
MatchRegs == {Reg(player, "Baseball", d, 100) : player \in {"p1", "p2"}, d \in MatchDivisions}
MatchNames == { <<"Baseball", "Majors">>, <<"Baseball", "Upper", "Minors">>, NoName }
MatchItems ==
    {LineItem(name, qty, 100, Undefined, "reg") :
        name \in MatchNames, qty \in {Undefined} \cup (1..MaxQuantity)}

SeqsUpTo(S, n) == UNION {[1..k -> S] : k \in 0..n}

MatchCall(queue, lineItems) ==
    [IdleRun EXCEPT !.pc = "match", !.queue = queue,
                    !.order = [Orders.o1 EXCEPT !.lineItems = lineItems]]

MatchInit ==
    /\ regQueue = << >>
    /\ processedOrders = {}
    /\ processingLocks = [o \in OrderIds |-> 0]
    /\ donationSynced = FALSE
    /\ pendingRegs = << >>
    /\ seasonRegs = EmptyBag
    /\ airtable = {}
    /\ donations = EmptyBag
    /\ syncErrors = EmptyBag
    /\ breaker = ClosedBreaker
    /\ now = 0
    /\ faults = 0
    /\ completed = [o \in OrderIds |-> 0]
    /\ lastOutcome = [o \in OrderIds |-> "none"]
    /\ \E queue \in SeqsUpTo(MatchRegs, MaxIntents),
          lineItems \in SeqsUpTo(MatchItems, MaxItems) :
          run = [p \in Procs |-> IF p = 1 THEN MatchCall(queue, lineItems) ELSE IdleRun]

\* const { matched, unmatched } = matchRegistrationsToLineItems(regQueue, lineItems)
Match(p) ==
    /\ run[p].pc = "match"
    /\ LET m == matchRegistrationsToLineItems(run[p].queue, run[p].order.lineItems)
       IN  run' = [run EXCEPT ![p] = [@ EXCEPT !.pc = "matched", !.matched = m.matched,
                                                !.unmatched = m.unmatched]]
    /\ UNCHANGED << session, stores, now, faults, history >>

MatchNext == \E p \in Procs : Match(p)

MatchSpec == MatchInit /\ [][MatchNext]_vars

\* ------------------- the session queue without backend/sessionManager.jsw
\* NewSeasonRegRefactored_SafeFallback.js defines its own queue functions
\* when the import of the backend module fails.  Here the session key
\* "regQueue" holds whatever text was stored under it (or nothing), and
\* regQueue is that stored item.  A JSON value is an array of registrations,
\* null or an object; a text is either the serialization of a JSON value or
\* does not parse.
JsonArray(items) == [type |-> "array", items |-> items]
JsonNull == [type |-> "null", items |-> << >>]
JsonObject == [type |-> "object", items |-> << >>]

Text(value) == [valid |-> TRUE, value |-> value]
CorruptText == [valid |-> FALSE, value |-> JsonNull]

Item(text) == [present |-> TRUE, text |-> text]
NoItem == [present |-> FALSE, text |-> CorruptText]

StoredLists == {JsonArray(q) : q \in SeqsUpTo(Registrations, MaxQueue)}
StoredItems ==
    {NoItem, Item(CorruptText)} \cup {Item(Text(v)) : v \in {JsonNull, JsonObject} \cup StoredLists}

\* getRegQueue = () => { try { return JSON.parse(session.getItem('regQueue') || '[]') }
\*                       catch { return [] } }
getRegQueueFallback(stored) ==
    LET text == IF stored.present THEN stored.text ELSE Text(JsonArray(<< >>))
    IN  IF text.valid THEN text.value ELSE JsonArray(<< >>)

\* setRegQueue = (queue) => session.setItem('regQueue', JSON.stringify(queue))
setRegQueueFallback(queue) == Item(Text(queue))

\* What the page's last queue call did.
QueueCall(call, stored, raised, returned, found) ==
    [pc |-> "form", call |-> call, stored |-> stored, raised |-> raised,
     returned |-> returned, found |-> found]

QueueInit ==
    /\ regQueue \in StoredItems
    /\ processedOrders = {}
    /\ processingLocks = [o \in OrderIds |-> 0]
    /\ donationSynced = FALSE
    /\ pendingRegs = << >>
    /\ seasonRegs = EmptyBag
    /\ airtable = {}
    /\ donations = EmptyBag
    /\ syncErrors = EmptyBag
    /\ breaker = ClosedBreaker
    /\ now = 0
    /\ faults = 0
    /\ completed = [o \in OrderIds |-> 0]
    /\ lastOutcome = [o \in OrderIds |-> "none"]
    /\ run = [p \in Procs |-> QueueCall("none", regQueue, FALSE, JsonNull, FALSE)]

\* getRegQueue()
GetRegQueueCall(p) ==
    /\ run' = [run EXCEPT ![p] = QueueCall("getRegQueue", regQueue, FALSE,
                                           getRegQueueFallback(regQueue), FALSE)]
    /\ UNCHANGED << session, stores, now, faults, history >>

\* addToRegQueue = (item) => { const queue = getRegQueue(); queue.push(item);
\*                             setRegQueue(queue) }: push is a TypeError on
\* null and on an object.
AddToRegQueueCall(p, item) ==
    LET queue == getRegQueueFallback(regQueue)
    IN  /\ Len(queue.items) < MaxQueue
        /\ IF queue.type = "array"
           THEN /\ regQueue' = setRegQueueFallback(JsonArray(Append(queue.items, item)))
                /\ run' = [run EXCEPT ![p] = QueueCall("addToRegQueue", regQueue, FALSE,
                                                       JsonNull, FALSE)]
           ELSE /\ regQueue' = regQueue
                /\ run' = [run EXCEPT ![p] = QueueCall("addToRegQueue", regQueue, TRUE,
                                                       JsonNull, FALSE)]
        /\ UNCHANGED << processedOrders, processingLocks, donationSynced, stores, now,
                        faults, history >>

\* isDuplicateInQueue = (reg) => getRegQueue().some(r => same playerId,
\* seasonName and sport): some is a TypeError on null and on an object.
IsDuplicateInQueueCall(p, reg) ==
    LET queue == getRegQueueFallback(regQueue)
    IN  /\ run' = [run EXCEPT ![p] =
                      IF queue.type = "array"
                      THEN QueueCall("isDuplicateInQueue", regQueue, FALSE, JsonNull,
                                     isDuplicateInQueue(queue.items, reg))
                      ELSE QueueCall("isDuplicateInQueue", regQueue, TRUE, JsonNull, FALSE)]
        /\ UNCHANGED << session, stores, now, faults, history >>

QueueNext ==
    \/ \E p \in Procs : GetRegQueueCall(p)
    \/ \E p \in Procs, item \in Registrations : AddToRegQueueCall(p, item)
    \/ \E p \in Procs, reg \in Registrations : IsDuplicateInQueueCall(p, reg)

QueueSpec == QueueInit /\ [][QueueNext]_vars

\* ----------------------------------------------- retry(), attempt by attempt
\* retry(operation, { maxAttempts, baseDelay }) as the steps of one call: an
\* invocation of the operation, ending as "ok", "transient" or "fatal", and the
\* wait before the next invocation.
MaxPolicyAttempts == 4
BaseDelays == {500, 1000}

RECURSIVE Pow2(_)
Pow2(n) == IF n = 0 THEN 1 ELSE 2 * Pow2(n - 1)

\* The wait after the n-th failed attempt, linear instead of exponential.
RetryDelayLinear(baseDelay, n) == baseDelay * n

\* delay(attempt) = baseDelay * 2^(attempt - 1)
RetryDelay(baseDelay, n) == baseDelay * Pow2(n - 1)

\* Every error is taken for a retryable one.
IsRetryableAny(out) == out # "ok"

\* The errors retry classifies as transient: network, timeout, server unavailable.
IsRetryable(out) == out = "transient"

\* One attempt more than the policy allows.
AttemptsLeftPlusOne(attempt, maxAttempts) == attempt <= maxAttempts

AttemptsLeft(attempt, maxAttempts) == attempt < maxAttempts

RetryCall(maxAttempts, baseDelay) ==
    [pc |-> "attempt", maxAttempts |-> maxAttempts, baseDelay |-> baseDelay,
     attempt |-> 1, outs |-> << >>, waits |-> << >>, wakeAt |-> 0, result |-> "none"]

RetryInit ==
    /\ regQueue = << >>
    /\ processedOrders = {}
    /\ processingLocks = [o \in OrderIds |-> 0]
    /\ donationSynced = FALSE
    /\ pendingRegs = << >>
    /\ seasonRegs = EmptyBag
    /\ airtable = {}
    /\ donations = EmptyBag
    /\ syncErrors = EmptyBag
    /\ breaker = ClosedBreaker
    /\ now = 0
    /\ faults = 0
    /\ completed = [o \in OrderIds |-> 0]
    /\ lastOutcome = [o \in OrderIds |-> "none"]
    /\ run \in [Procs -> {RetryCall(m, b) : m \in 1..MaxPolicyAttempts, b \in BaseDelays}]

\* The operation is invoked and ends as out.
RetryAttempt(p, out) ==
    LET r == run[p]
        invoked == [r EXCEPT !.outs = Append(@, out)]
    IN  /\ r.pc = "attempt"
        /\ run' = [run EXCEPT ![p] =
              IF out = "ok" THEN [invoked EXCEPT !.pc = "done", !.result = "ok"]
              ELSE IF ~IsRetryable(out)
              THEN [invoked EXCEPT !.pc = "done", !.result = out]
              ELSE IF ~AttemptsLeft(r.attempt, r.maxAttempts)
              THEN [invoked EXCEPT !.pc = "done", !.result = "RetriesExhausted"]
              ELSE [invoked EXCEPT !.pc = "wait",
                                   !.waits = Append(@, RetryDelay(r.baseDelay, r.attempt)),
                                   !.wakeAt = now + RetryDelay(r.baseDelay, r.attempt)]]
        /\ UNCHANGED << session, stores, now, faults, history >>

\* The wait is over: the clock has reached wakeAt and the next attempt starts.
RetryWake(p) ==
    /\ run[p].pc = "wait"
    /\ now' = IF now < run[p].wakeAt THEN run[p].wakeAt ELSE now
    /\ run' = [run EXCEPT ![p] = [@ EXCEPT !.pc = "attempt", !.attempt = @ + 1]]
    /\ UNCHANGED << session, stores, faults, history >>

RetryNext ==
    \/ \E p \in Procs, out \in AttemptOutcomes : RetryAttempt(p, out)
    \/ \E p \in Procs : RetryWake(p)

RetrySpec == RetryInit /\ [][RetryNext]_vars

\* Every call that can take a step eventually takes it.
RetryFairSpec ==
    /\ RetrySpec
    /\ \A p \in Procs :
          /\ WF_vars(RetryWake(p))
          /\ WF_vars(\E out \in AttemptOutcomes : RetryAttempt(p, out))

\* ------------------------------------ two orders with a donation each
\* The buyer pays two orders in one session, each with a donation line item;
\* only the donation synchronization can fail.
DonorOrders ==
    { Orders.o1,
      [Orders.o2 EXCEPT !.lineItems = Append(@, LineItem(NoName, 1, 20, 20, "d20"))] }

DonationNext ==
    \/ \E reg \in Registrations : AddToRegQueue(reg)
    \/ \E p \in Procs : OnReady(p)
    \/ \E p \in Procs, order \in DonorOrders : CheckOrder(p, order)
    \/ \E p \in Procs, result \in {"ok", "failed", "caught", "threw"} : DonationItem(p, result)
    \/ \E p \in Procs : LoadSession(p)
    \/ \E p \in Procs : LoadQuery(p, "ok")
    \/ \E p \in Procs : NoRegistrationData(p, TRUE)
    \/ \E p \in Procs : SaveCheck(p)
    \/ \E p \in Procs : SaveInsert(p, OkAttempts)
    \/ \E p \in Procs : SaveSync(p, OkAttempts)
    \/ \E p \in Procs : BatchReturn(p)

DonationSpec == Init /\ [][DonationNext]_vars

\* ----------------------------------- reconciliation during a sync outage
\* The breaker outlives a page load: a run can find it as earlier calls left
\* it, CLOSED with up to FailureThreshold - 1 failures counted or OPEN with the
\* cooldown running.  The runs take the queue from the session; only the
\* synchronization can fail.
OutageBreakers ==
    { ClosedBreaker,
      [ClosedBreaker EXCEPT !.failureCount = FailureThreshold - 1],
      [state |-> "OPEN", failureCount |-> FailureThreshold, successCount |-> 0,
       nextAttemptTime |-> CooldownMs] }

OutageInit ==
    /\ regQueue = << >>
    /\ processedOrders = {}
    /\ processingLocks = [o \in OrderIds |-> 0]
    /\ donationSynced = FALSE
    /\ pendingRegs = << >>
    /\ seasonRegs = EmptyBag
    /\ airtable = {}
    /\ donations = EmptyBag
    /\ syncErrors = EmptyBag
    /\ breaker \in OutageBreakers
    /\ now = 0
    /\ faults = 0
    /\ completed = [o \in OrderIds |-> 0]
    /\ lastOutcome = [o \in OrderIds |-> "none"]
    /\ run = [p \in Procs |-> IdleRun]

OutageNext ==
    \/ Tick
    \/ \E reg \in Registrations : AddToRegQueue(reg)
    \/ \E p \in Procs : OnReady(p)
    \/ \E p \in Procs, o \in OrderIds : CheckOrder(p, Orders[o])
    \/ \E p \in Procs : DonationItem(p, "ok")
    \/ \E p \in Procs : LoadSession(p)
    \/ \E p \in Procs : LoadQuery(p, "ok")
    \/ \E p \in Procs : NoRegistrationData(p, TRUE)
    \/ \E p \in Procs : SaveCheck(p)
    \/ \E p \in Procs : SaveInsert(p, OkAttempts)
    \/ \E p \in Procs, outs \in AttemptSeqs : SaveSync(p, outs)
    \/ \E p \in Procs : BatchReturn(p)

OutageSpec == OutageInit /\ [][OutageNext]_vars

\* ------------------------------------------ the circuit breaker, call by call
\* Callers of getCircuitBreaker('airtable').execute(operation): a call arrives,
\* is turned away or invokes the operation, and the operation settles later.
\* In CLOSED a call arrives when no other is outstanding.  Here faults counts
\* the operation's failures in a row, up to FailureThreshold.
MaxCooldowns == 3

BreakerCaller(pc, trial, last, at) == [pc |-> pc, trial |-> trial, last |-> last, at |-> at]

Outstanding == {p \in Procs : run[p].pc = "calling"}

BreakerInit ==
    /\ regQueue = << >>
    /\ processedOrders = {}
    /\ processingLocks = [o \in OrderIds |-> 0]
    /\ donationSynced = FALSE
    /\ pendingRegs = << >>
    /\ seasonRegs = EmptyBag
    /\ airtable = {}
    /\ donations = EmptyBag
    /\ syncErrors = EmptyBag
    /\ breaker = ClosedBreaker
    /\ now = 0
    /\ faults = 0
    /\ completed = [o \in OrderIds |-> 0]
    /\ lastOutcome = [o \in OrderIds |-> "none"]
    /\ run = [p \in Procs |-> BreakerCaller("idle", FALSE, "none", 0)]

BreakerTick ==
    /\ now + (CooldownMs \div 2) <= MaxCooldowns * CooldownMs
    /\ now' = now + (CooldownMs \div 2)
    /\ UNCHANGED << session, stores, faults, history, run >>

\* cb.execute(operation) is called.
BreakerCall(p) ==
    LET a == BreakerAdmit(breaker, now)
    IN  /\ run[p].pc = "idle"
        /\ breaker.state = "CLOSED" => Outstanding = {}
        /\ breaker' = a.cb
        /\ run' = [run EXCEPT ![p] =
              IF a.admitted
              THEN BreakerCaller("calling", a.cb.state = "HALF_OPEN", "none", now)
              ELSE BreakerCaller("idle", FALSE, "CircuitOpen", now)]
        /\ UNCHANGED << session, pendingRegs, seasonRegs, airtable, donations, syncErrors,
                        now, faults, history >>

\* The operation of an admitted call ends as out.
BreakerReturn(p, out) ==
    /\ run[p].pc = "calling"
    /\ breaker' = BreakerSettle(breaker, now, out)
    /\ faults' = IF out = "ok" THEN 0
                 ELSE IF faults < FailureThreshold THEN faults + 1 ELSE faults
    /\ run' = [run EXCEPT ![p] = [@ EXCEPT !.pc = "idle", !.last = out]]
    /\ UNCHANGED << session, pendingRegs, seasonRegs, airtable, donations, syncErrors,
                    now, history >>

BreakerNext ==
    \/ BreakerTick
    \/ \E p \in Procs : BreakerCall(p)
    \/ \E p \in Procs, out \in AttemptOutcomes : BreakerReturn(p, out)

BreakerSpec == BreakerInit /\ [][BreakerNext]_vars

\* ------------------------------------------- the Pay handler, await by await
\* buttonPay onClick: the queue is read and validated, the backup insert is
\* awaited inside its own try, then addItemToCart, the donation lightbox and
\* the navigation to the cart page.  run[p] is the handler of one tab:
\* backup is the _id of the record it inserted, 0 when it inserted none.
PayRun(pc, queue, backup) == [pc |-> pc, queue |-> queue, backup |-> backup]

CheckoutInit ==
    /\ regQueue \in {q \in SeqsUpTo(Registrations, MaxQueue) :
                        \A i, j \in 1..Len(q) : Identity(q[i]) = Identity(q[j]) => i = j}
    /\ processedOrders = {}
    /\ processingLocks = [o \in OrderIds |-> 0]
    /\ donationSynced = FALSE
    /\ pendingRegs = << >>
    /\ seasonRegs = EmptyBag
    /\ airtable = {}
    /\ donations = EmptyBag
    /\ syncErrors = EmptyBag
    /\ breaker = ClosedBreaker
    /\ now = 0
    /\ faults = 0
    /\ completed = [o \in OrderIds |-> 0]
    /\ lastOutcome = [o \in OrderIds |-> "none"]
    /\ run = [p \in Procs |-> PayRun("checkout", << >>, 0)]

\* The click: an empty queue ends the handler; a user who is not logged in
\* throws inside the inner try, whose catch warns and goes on.
PayStart(p, loggedIn) ==
    /\ run[p].pc \in {"checkout", "cart"}
    /\ Len(getRegQueue) > 0
    /\ Len(pendingRegs) < MaxRecords
    /\ run' = [run EXCEPT ![p] =
                  PayRun(IF loggedIn THEN "insert" ELSE "addToCart", getRegQueue, 0)]
    /\ UNCHANGED << session, stores, now, faults, history >>

\* await wixData.insert("PendingRegistrations", ...) settles: a rejection is
\* caught, a warning is shown and the handler goes on.
PayInsert(p, ok) ==
    /\ run[p].pc = "insert"
    /\ IF ok
       THEN /\ pendingRegs' =
                 Append(pendingRegs,
                        [userId |-> CurrentUser, registrations |-> Stringify(run[p].queue),
                         status |-> "pending", createdAt |-> now])
            /\ run' = [run EXCEPT ![p] = PayRun("addToCart", @.queue, Len(pendingRegs) + 1)]
       ELSE /\ pendingRegs' = pendingRegs
            /\ run' = [run EXCEPT ![p] = PayRun("addToCart", @.queue, 0)]
    /\ UNCHANGED << session, seasonRegs, airtable, donations, syncErrors, breaker, now,
                    faults, history >>

\* await addItemToCart(div) settles; on success the lightbox is shown and
\* wixLocation.to(ROUTES.CART) follows.
PayAddToCart(p, success) ==
    /\ run[p].pc = "addToCart"
    /\ run' = [run EXCEPT ![p] = [@ EXCEPT !.pc = IF success THEN "cart" ELSE "checkout"]]
    /\ UNCHANGED << session, stores, now, faults, history >>

CheckoutNext ==
    \/ \E p \in Procs, loggedIn \in BOOLEAN : PayStart(p, loggedIn)
    \/ \E p \in Procs, ok \in BOOLEAN : PayInsert(p, ok)
    \/ \E p \in Procs, success \in BOOLEAN : PayAddToCart(p, success)

CheckoutSpec == CheckoutInit /\ [][CheckoutNext]_vars

\* ------------------------------- registration page: division lookups
\* The registration form on its own.  The buyer has no registration yet, so
\* checkForDuplicates answers isDuplicate false, and getDivisionNote answers
\* with success; calculateDivision calls started by dropdown changes are
\* outstanding together and their awaits settle in any order.  Here run is the
\* page: the dropdown values, the page-level variables, the elements the
\* handlers show and hide, and the outstanding calculateDivision calls.
PlayerIds == {"p1", "p2"}
Sports == {"Baseball", "Softball"}

\* Age at the season's cutoff date, from the player's birth date.
PlayerAge(playerId) == IF playerId = "p1" THEN 11 ELSE 9

Unknown == << "Unknown" >>

\* The division of an age and a sport (DIVISIONS.*), 'Unknown' when none applies.
DivisionOf(age, sport) ==
    IF sport = "Baseball"
    THEN CASE age >= 11 /\ age <= 12 -> << "Baseball", "Majors" >>
           [] age = 10 -> << "Baseball", "Upper", "Minors" >>
           [] age = 9 -> << "Baseball", "Lower", "Minors" >>
           [] OTHER -> Unknown
    ELSE IF sport = "Softball"
    THEN CASE age >= 11 /\ age <= 12 -> << "Softball", "Majors" >>
           [] age >= 9 /\ age <= 10 -> << "Softball", "Minors" >>
           [] OTHER -> << "No", "division", "available" >>
    ELSE Unknown

\* res.registrationStatus as getDivisionNote returns it for a division.
RegistrationStatusOf(division) ==
    CASE division = << "Baseball", "Majors" >> -> "Open"
      [] division = << "Softball", "Majors" >> -> "Closed "
      [] division = << "Baseball", "Lower", "Minors" >> -> "Waitlist"
      [] OTHER -> ""

\* String.prototype.trim and toLowerCase on the status texts.
Trim(text) == IF text = "Closed " THEN "Closed" ELSE text

ToLowerCase(text) ==
    CASE text = "Open" -> "open"
      [] text = "Closed" -> "closed"
      [] text = "Closed " -> "closed "
      [] text = "Waitlist" -> "waitlist"
      [] OTHER -> text

IdleLookup == [pc |-> "idle", sport |-> Nil, division |-> Unknown]

\* updateMainFormVisibility: the register button shows when the dropdowns are
\* set and the status is not closed.
updateMainFormVisibility(page) ==
    LET ready == page.selectedPlayerId # Nil /\ page.sportDrop # Nil
        isClosed == ToLowerCase(page.divisionRegistrationStatus) = "closed"
    IN  [page EXCEPT !.buttonRegister = ready /\ ~isClosed]

\* calculateDivision up to its first await, as call p: without a player or a
\* sport it resets the status; otherwise it awaits checkForDuplicates with
\* the sport it read.
calculateDivision(page, p) ==
    IF page.selectedPlayerId = Nil \/ page.sportDrop = Nil
    THEN updateMainFormVisibility(
             [page EXCEPT !.textDivision = Unknown, !.divisionRegistrationStatus = ""])
    ELSE [page EXCEPT !.lookups[p] =
             [pc |-> "duplicates", sport |-> page.sportDrop, division |-> Unknown]]

FreeLookup == CHOOSE p \in Procs :
                 /\ run.lookups[p].pc = "idle"
                 /\ \A q \in Procs : q < p => run.lookups[q].pc # "idle"

DivisionInit ==
    /\ regQueue = << >>
    /\ processedOrders = {}
    /\ processingLocks = [o \in OrderIds |-> 0]
    /\ donationSynced = FALSE
    /\ pendingRegs = << >>
    /\ seasonRegs = EmptyBag
    /\ airtable = {}
    /\ donations = EmptyBag
    /\ syncErrors = EmptyBag
    /\ breaker = ClosedBreaker
    /\ now = 0
    /\ faults = 0
    /\ completed = [o \in OrderIds |-> 0]
    /\ lastOutcome = [o \in OrderIds |-> "none"]
    /\ run = [onPage |-> TRUE, selectedPlayerId |-> Nil, sportDrop |-> Nil,
              textDivision |-> Unknown, waitlist |-> FALSE,
              divisionRegistrationStatus |-> "", buttonRegister |-> FALSE,
              textError |-> FALSE, lookups |-> [p \in Procs |-> IdleLookup]]

\* playerDrop.onChange: selectedPlayerId and the birth date are set, then
\* calculateDivision is called (not awaited).
PlayerChange(playerId) ==
    /\ run.onPage
    /\ \E p \in Procs : run.lookups[p].pc = "idle"
    /\ run' = calculateDivision([run EXCEPT !.selectedPlayerId = playerId], FreeLookup)
    /\ UNCHANGED << session, stores, now, faults, history >>

\* sportDrop.onChange(calculateDivision).
SportChange(sport) ==
    /\ run.onPage
    /\ \E p \in Procs : run.lookups[p].pc = "idle"
    /\ run' = calculateDivision([run EXCEPT !.sportDrop = sport], FreeLookup)
    /\ UNCHANGED << session, stores, now, faults, history >>

\* Call p resumes after checkForDuplicates: the division is computed from the
\* birth date as it is now and the sport the call read, written to
\* #textDivision, and loadDivisionAndFee resets the status and awaits
\* getDivisionNote.
DuplicatesAnswer(p) ==
    /\ run.onPage
    /\ run.lookups[p].pc = "duplicates"
    /\ LET division == DivisionOf(PlayerAge(run.selectedPlayerId), run.lookups[p].sport)
           page == [run EXCEPT !.textError = FALSE, !.textDivision = division,
                               !.waitlist = FALSE, !.divisionRegistrationStatus = ""]
       IN  run' = IF Includes(division, << "No" >>) \/ Includes(division, Unknown)
                  THEN updateMainFormVisibility([page EXCEPT !.lookups[p] = IdleLookup])
                  ELSE [page EXCEPT !.lookups[p] = [@ EXCEPT !.pc = "note",
                                                            !.division = division]]
    /\ UNCHANGED << session, stores, now, faults, history >>

\* Call p resumes after getDivisionNote: the status of the call's division
\* is stored; closed hides the form, waitlist marks #textDivision; then
\* updateMainFormVisibility.
NoteAnswer(p) ==
    /\ run.onPage
    /\ run.lookups[p].pc = "note"
    /\ LET status == Trim(RegistrationStatusOf(run.lookups[p].division))
           page == [run EXCEPT !.divisionRegistrationStatus = status,
                               !.lookups[p] = IdleLookup]
       IN  run' = updateMainFormVisibility(
                      IF ToLowerCase(status) = "waitlist"
                      THEN [page EXCEPT !.waitlist = TRUE]
                      ELSE page)
    /\ UNCHANGED << session, stores, now, faults, history >>

\* handleRegisterClick on the visible button: a closed status shows the error;
\* otherwise the registration is collected from the dropdowns and
\* #textDivision, added to the queue, and the page is left for the checkout.
handleRegisterClick ==
    /\ run.onPage
    /\ run.buttonRegister
    /\ IF ToLowerCase(run.divisionRegistrationStatus) = "closed"
       THEN /\ run' = [run EXCEPT !.textError = TRUE]
            /\ regQueue' = regQueue
       ELSE /\ regQueue' = Append(getRegQueue,
                                  Reg(run.selectedPlayerId, run.sportDrop,
                                      run.textDivision, 150))
            /\ run' = [run EXCEPT !.onPage = FALSE]
    /\ UNCHANGED << processedOrders, processingLocks, donationSynced, stores, now,
                    faults, history >>

DivisionNext ==
    \/ \E playerId \in PlayerIds : PlayerChange(playerId)
    \/ \E sport \in Sports : SportChange(sport)
    \/ \E p \in Procs : DuplicatesAnswer(p)
    \/ \E p \in Procs : NoteAnswer(p)
    \/ handleRegisterClick

DivisionSpec == DivisionInit /\ [][DivisionNext]_vars

\* =================================================================== claims
InTry(p) ==
    run[p].pc \in {"donations", "loadQuery", "loadCheck", "loadUpdate", "nodata",
                   "batch", "insert", "sync", "return", "cleanQuery", "cleanUpdate"}

InBatch(p) == run[p].pc \in {"batch", "insert", "sync", "return"}

TurnedAway(p) == run[p].pc = "done" /\ run[p].outcome \in {"processed", "locked"}

C2_ProcessedOrderIsNoOp ==
    /\ [][\A p \in Procs :
            (/\ run[p].pc = "getOrder"
             /\ run'[p].pc # "getOrder"
             /\ run'[p].order._id \in processedOrders)
            => /\ run'[p].pc = "done"
               /\ run'[p].outcome = "processed"
               /\ UNCHANGED << regQueue, donationSynced, processedOrders, processingLocks,
                               stores >>]_vars
    /\ [](\A o \in OrderIds : completed[o] = IF o \in processedOrders THEN 1 ELSE 0)

C2_Witness ==
    \E p \in Procs :
        /\ run[p].pc = "done" /\ run[p].outcome = "processed"
        /\ completed[run[p].order._id] = 1

\* C3: an invocation that acquired the processing lock and has ended no longer
\* holds it, whatever the exit path.
C3_LockReleasedOnEveryExit ==
    \A p \in Procs :
        (run[p].pc = "done" /\ run[p].acquired)
        => processingLocks[run[p].order._id] # p

\* C4: a run whose queue load came back empty never invokes the batch save or the
\* cleanup, never marks the order processed, and has invoked
\* handleNoRegistrationData exactly once by the time it ends.
C4_NoDataAborts ==
    \A p \in Procs :
        run[p].loadedEmpty
        => /\ ~run[p].batchInvoked
           /\ ~run[p].cleaned
           /\ ~run[p].marked
           /\ run[p].notified <= 1
           /\ run[p].pc = "done" => run[p].notified = 1

C4_Witness ==
    \E p \in Procs :
        /\ run[p].pc = "done" /\ run[p].outcome = "nodata"
        /\ run[p].loadedEmpty /\ run[p].notified = 1
        /\ run[p].order._id \notin processedOrders

\* C5: after a run for an order has aborted for lack of registration data, and
\* while no other run for that order is under way, an invocation for the order
\* passes the processed check and acquires the lock.
C5_RetryAfterNoData ==
    \A o \in OrderIds :
        (/\ lastOutcome[o] = "nodata"
         /\ ~\E q \in Procs : InTry(q) /\ run[q].order._id = o)
        => ~isOrderProcessed(o) /\ CanAcquire(o)

\* C6: a run that ended because nothing matched has released the lock, has not
\* marked the order processed, and has left no backup record in "processing".
C6_ZeroMatchLeavesNothing ==
    \A p \in Procs :
        (run[p].pc = "done" /\ run[p].outcome = "nomatch")
        => /\ processingLocks[run[p].order._id] # p
           /\ ~run[p].marked
           /\ run[p].claimed # 0 => pendingRegs[run[p].claimed].status # "processing"

\* The SyncErrorRecords appended for the failed synchronization of reg.
SyncFailuresOf(reg) ==
    CopiesIn(SyncError(reg.orderId, "AIRTABLE_SYNC_FAILED", Identity(reg)), syncErrors)

\* C7: when, within one batch, the synchronization failed for X and succeeded
\* for Y, both have an authoritative record, X's result is a partial success,
\* Y's a full success, and exactly one SyncErrorRecord was appended for X.
C7_PartialFailureIsolation ==
    \A p \in Procs : \A i, j \in 1..Len(run[p].results) :
        (run[p].results[i].sync = "failed" /\ run[p].results[j].sync = "ok")
        => /\ HasRecord(run[p].toSave[i])
           /\ HasRecord(run[p].toSave[j])
           /\ run[p].results[i].kind = "partial"
           /\ run[p].results[j].kind = "full"
           /\ SyncFailuresOf(run[p].toSave[i]) = 1

C7_Witness ==
    \E p \in Procs : \E i, j \in 1..Len(run[p].results) :
        /\ run[p].pc = "return"
        /\ run[p].results[i].sync = "failed" /\ run[p].results[j].sync = "ok"
        /\ run[p].results[i].kind = "partial" /\ run[p].results[j].kind = "full"

\* C8: the synchronization of a registration is called only once its
\* authoritative record is written; a failed write is followed by no
\* synchronization call and its result is neither full nor partial success.
C8_SyncOnlyAfterWrite ==
    \A p \in Procs :
        /\ run[p].pc = "sync" => HasRecord(CurrentReg(run[p]))
        /\ \A i \in 1..Len(run[p].results) :
              /\ run[p].results[i].sync # "none" => run[p].results[i].insert = "ok"
              /\ run[p].results[i].insert = "failed"
                 => /\ run[p].results[i].sync = "none"
                    /\ run[p].results[i].kind = "failed"

C8_Witness ==
    \E p \in Procs : \E i \in 1..Len(run[p].results) :
        /\ run[p].results[i].insert = "failed"
        /\ run[p].results[i].sync = "none"
        /\ ~HasRecord(run[p].toSave[i])

\* C9: the authoritative store never holds two records for one order and
\* registration identity, and a saveRegistration call that found the record
\* already there returned success without writing or synchronizing.
C9_OneRecordPerOrderAndIdentity ==
    /\ \A a, b \in BagToSet(seasonRegs) :
          Key(a) = Key(b) => a = b /\ CopiesIn(a, seasonRegs) = 1
    /\ \A p \in Procs : \A i \in 1..Len(run[p].results) :
          run[p].results[i].insert = "existing"
          => /\ run[p].results[i].kind = "full"
             /\ run[p].results[i].sync = "none"
             /\ HasRecord(run[p].toSave[i])

C9_Witness ==
    \E p \in Procs : \E i \in 1..Len(run[p].results) :
        /\ run[p].results[i].insert = "existing"
        /\ CopiesIn(CHOOSE rec \in BagToSet(seasonRegs) : Key(rec) = Key(run[p].toSave[i]),
                    seasonRegs) = 1

\* C10: when the batch returns, saveRegistration has been called once for every
\* match, whatever the outcome of the others, and
\* total = number of matches = successful + partial + failed.
C10_BatchCountsEveryMatch ==
    \A p \in Procs :
        /\ InBatch(p) => /\ Len(run[p].toSave) = Len(run[p].matched)
                         /\ Len(run[p].results) <= Len(run[p].toSave)
        /\ run[p].pc = "return"
           => /\ Len(run[p].results) = Len(run[p].matched)
              /\ BatchResult(run[p]).total = Len(run[p].matched)
              /\ BatchResult(run[p]).total =
                   BatchResult(run[p]).successful + BatchResult(run[p]).partial
                   + BatchResult(run[p]).failed

C10_Witness ==
    \E p \in Procs : \E i, j \in 1..Len(run[p].results) :
        /\ run[p].pc = "return"
        /\ i < j
        /\ run[p].results[i].kind = "failed"
        /\ run[p].results[j].kind = "full"

\* ------------------------------------------------------ matching claims
\* The units of a line item: its quantity, one when the quantity is absent.
Units(li) == IF li.quantity = Undefined THEN 1 ELSE li.quantity

\* The units of the first l line items.
RECURSIVE UnitsUpTo(_, _)
UnitsUpTo(items, l) == IF l = 0 THEN 0 ELSE UnitsUpTo(items, l - 1) + Units(items[l])

\* Slot k is a unit of line item ItemOfSlot(items, k).
ItemOfSlot(items, k) ==
    CHOOSE l \in 1..Len(items) : UnitsUpTo(items, l - 1) < k /\ k <= UnitsUpTo(items, l)

Contains(li, reg) == IsString(li.name) /\ Includes(li.name, reg.division)

\* f[i] is the slot of the i-th registration (0: none) under greedy first fit.
IsFirstFit(f, regs, items) ==
    \A i \in 1..Len(regs) :
        LET taken == {f[j] : j \in 1..(i - 1)} \ {0}
            open(k) == k \notin taken /\ Contains(items[ItemOfSlot(items, k)], regs[i])
        IN  IF \E k \in 1..UnitsUpTo(items, Len(items)) : open(k)
            THEN /\ f[i] # 0
                 /\ open(f[i])
                 /\ \A k \in 1..(f[i] - 1) : ~open(k)
            ELSE f[i] = 0

\* The result that the assignment f stands for.
ResultOf(f, regs, items) ==
    LET all == [i \in 1..Len(regs) |-> i]
        bound == SelectSeq(all, LAMBDA i : f[i] # 0)
        free == SelectSeq(all, LAMBDA i : f[i] = 0)
    IN  [matched |-> [n \in 1..Len(bound) |->
                        [reg |-> regs[bound[n]],
                         lineItem |-> items[ItemOfSlot(items, f[bound[n]])]]],
         unmatched |-> [n \in 1..Len(free) |-> regs[free[n]]]]

Assignments(regs, items) == [1..Len(regs) -> 0..UnitsUpTo(items, Len(items))]

\* C11: the result of matchRegistrationsToLineItems is the greedy first-fit
\* assignment: each registration, in list order, takes the lowest unused slot
\* whose line-item name contains its division, and is unmatched iff none is left.
C11_GreedyFirstFit ==
    \A p \in Procs :
        run[p].pc = "matched"
        => \E f \in Assignments(run[p].queue, run[p].order.lineItems) :
              /\ IsFirstFit(f, run[p].queue, run[p].order.lineItems)
              /\ ResultOf(f, run[p].queue, run[p].order.lineItems)
                   = [matched |-> run[p].matched, unmatched |-> run[p].unmatched]

\* A registration left unmatched because an earlier one took the only fitting
\* slot, and one bound to a slot that is not the first of the order.
C11_Witness ==
    \E p \in Procs :
        /\ run[p].pc = "matched"
        /\ \E i \in 1..Len(run[p].unmatched), l \in 1..Len(run[p].order.lineItems) :
              Contains(run[p].order.lineItems[l], run[p].unmatched[i])
        /\ \E n \in 1..Len(run[p].matched) :
              run[p].matched[n].lineItem # run[p].order.lineItems[1]

\* C12: no more registrations are matched to a line item than it has units, and
\* no more in all than the units of the order; every registration is in exactly
\* one of matched and unmatched.
C12_SlotsUsedOnce ==
    \A p \in Procs :
        run[p].pc = "matched"
        => LET items == run[p].order.lineItems
               m == run[p].matched
               Same(li) == {l \in 1..Len(items) : items[l] = li}
               Total(S) == UnitsUpTo([l \in 1..Len(items) |->
                                        IF l \in S THEN items[l]
                                        ELSE [items[l] EXCEPT !.quantity = 0]],
                                     Len(items))
           IN  /\ \A l \in 1..Len(items) :
                     Cardinality({n \in 1..Len(m) : m[n].lineItem = items[l]})
                       <= Total(Same(items[l]))
               /\ Len(m) <= UnitsUpTo(items, Len(items))
               /\ Len(m) + Len(run[p].unmatched) = Len(run[p].queue)

\* Every unit of a line item is taken and a further fitting registration is left.
C12_Witness ==
    \E p \in Procs :
        /\ run[p].pc = "matched"
        /\ Len(run[p].order.lineItems) = 1
        /\ Units(run[p].order.lineItems[1]) = 2
        /\ Len(run[p].matched) = 2
        /\ \E i \in 1..Len(run[p].unmatched) :
              Contains(run[p].order.lineItems[1], run[p].unmatched[i])

\* C14: the fee of a registration handed to the batch save is the unit price of
\* the line item it was matched to.
C14_FeeIsUnitPrice ==
    \A p \in Procs :
        InBatch(p)
        => \A i \in 1..Len(run[p].toSave) :
              run[p].toSave[i].fee = run[p].matched[i].lineItem.price

InQueue(reg, queue) == \E k \in 1..Len(queue) : queue[k] = reg

InHand(p) ==
    {run[p].cands[i] : i \in 1..Len(run[p].cands)}
      \cup (IF run[p].claimed # 0 THEN {run[p].claimed} ELSE {})

Eligible(p, i) ==
    /\ pendingRegs[i].userId = run[p].order.buyerId
    /\ pendingRegs[i].createdAt + RecencyWindowMs >= run[p].attemptAt

\* C16: recovery only looks at, and only moves to processing, records of the
\* order's buyer created no more than two hours before the attempt, and every
\* record the query returns is pending when it is returned.
C16_RecoveryWithinWindow ==
    /\ [](\A p \in Procs :
            run[p].pc \in {"loadCheck", "loadUpdate"}
            => \A i \in InHand(p) : Eligible(p, i))
    /\ [][\A p \in Procs :
            (run[p].pc = "loadQuery" /\ run'[p].pc = "loadCheck")
            => \A i \in InHand(p)' : pendingRegs[i].status = "pending"]_vars
    /\ [][\A i \in 1..Len(pendingRegs) :
            (pendingRegs[i].status # "processing" /\ pendingRegs'[i].status = "processing")
            => \E p \in Procs :
                  /\ run[p].pc = "loadUpdate"
                  /\ run[p].claimed = i
                  /\ Eligible(p, i)]_vars

\* A run takes a record while the buyer has an older pending record outside the
\* window.
C16_Witness ==
    \E p \in Procs :
        /\ run[p].pc = "loadUpdate"
        /\ \E i \in 1..Len(pendingRegs) :
              /\ pendingRegs[i].status = "pending"
              /\ i \notin InHand(p)
              /\ pendingRegs[i].userId = run[p].order.buyerId
              /\ pendingRegs[i].createdAt + RecencyWindowMs < run[p].attemptAt

\* C17: no buyer has two records in processing inside the recency window.
C17_OneProcessingPerBuyer ==
    \A userId \in Users :
        Cardinality({i \in 1..Len(pendingRegs) :
                        /\ pendingRegs[i].userId = userId
                        /\ pendingRegs[i].status = "processing"
                        /\ pendingRegs[i].createdAt >= twoHoursAgo}) <= 1

\* C18: the registrations of one record are returned to at most one run.
C18_RecordLoadedByOneRun ==
    \A p, q \in Procs :
        (p # q /\ run[p].source = "cms" /\ run[q].source = "cms")
        => run[p].claimed # run[q].claimed

StatusRank(status) ==
    CASE status = "pending" -> 1
      [] status = "processing" -> 2
      [] status = "completed" -> 3

\* C19: a record is created pending and its status never moves backwards along
\* pending, processing, completed.
C19_StatusOnlyForward ==
    [][/\ \A i \in 1..Len(pendingRegs) :
            /\ i <= Len(pendingRegs')
            /\ StatusRank(pendingRegs'[i].status) >= StatusRank(pendingRegs[i].status)
       /\ \A i \in (Len(pendingRegs) + 1)..Len(pendingRegs') :
            pendingRegs'[i].status = "pending"]_vars

Malformed(stored) ==
    \/ ~stored.present
    \/ ~stored.text.valid
    \/ stored.text.value.type # "array"

\* C21: getRegQueue never raises and always returns a list, the empty list for
\* a stored value that is absent, does not parse or parses to a non-list, so
\* that addToRegQueue and isDuplicateInQueue never raise on stored state.
C21_GetRegQueueYieldsList ==
    \A p \in Procs :
        /\ run[p].call = "getRegQueue" =>
              /\ ~run[p].raised
              /\ run[p].returned.type = "array"
              /\ Malformed(run[p].stored) => run[p].returned.items = << >>
        /\ run[p].call \in {"addToRegQueue", "isDuplicateInQueue"} => ~run[p].raised

\* ---------------------------------------------------------- retry claims
Invoked(r) == Len(r.outs)

\* C24: retry invokes the operation again only after a transient error: a
\* non-transient error ends the call at once with that error, a success ends it
\* with the result, and the call gives up after a transient error only when
\* maxAttempts invocations were made; so a success on attempt k after k - 1
\* transient failures means exactly k invocations.
C24_RetryOnlyAfterTransient ==
    \A p \in Procs :
        LET r == run[p]
            n == Invoked(r)
        IN  /\ \A i \in 1..(n - 1) : r.outs[i] = "transient"
            /\ n >= 1 /\ r.outs[n] = "fatal" => r.pc = "done" /\ r.result = "fatal"
            /\ n >= 1 /\ r.outs[n] = "ok" => r.pc = "done" /\ r.result = "ok"
            /\ n >= 1 /\ r.outs[n] = "transient" /\ n < r.maxAttempts => r.pc # "done"
            /\ r.pc = "done" => n >= 1 /\ r.attempt = n

\* One call succeeded on its third attempt after two transient failures, the
\* other ended on a non-transient error at its first attempt with attempts left.
C24_Witness ==
    /\ run[1].pc = "done" /\ run[1].outs = << "transient", "transient", "ok" >>
    /\ run[2].pc = "done" /\ run[2].outs = << "fatal" >> /\ run[2].maxAttempts > 1

C25_AtMostMaxAttempts ==
    \A p \in Procs :
        LET r == run[p]
            n == Invoked(r)
        IN  /\ n <= r.maxAttempts
            /\ n = r.maxAttempts => r.pc = "done"
            /\ r.pc = "done" /\ r.outs[n] = "transient" =>
                  /\ n = r.maxAttempts
                  /\ r.result = "RetriesExhausted"

\* C25: retry always terminates: the operation is never invoked more than
\* maxAttempts times, every call ends, and a call whose every attempt failed
\* transiently ends after exactly maxAttempts invocations with the last error
\* tagged RetriesExhausted.
C25_RetryTerminates ==
    /\ []C25_AtMostMaxAttempts
    /\ \A p \in Procs : <>[](run[p].pc = "done")

\* A call with maxAttempts 3 failed transiently three times and gave up.
C25_Witness ==
    \E p \in Procs :
        /\ run[p].pc = "done" /\ run[p].result = "RetriesExhausted"
        /\ run[p].maxAttempts = 3
        /\ run[p].outs = << "transient", "transient", "transient" >>

C22_OpensAfterFiveFailures ==
    /\ [](/\ faults = 5 <=> breaker.state # "CLOSED"
          /\ breaker.state = "CLOSED" => breaker.failureCount = faults)
    /\ [][/\ breaker.state = "CLOSED" /\ breaker'.state # "CLOSED" =>
                /\ faults = 4 /\ faults' = 5
                /\ breaker'.state = "OPEN"
                /\ breaker'.nextAttemptTime = now + 60000
          /\ \A p \in Procs :
                /\ breaker.state = "OPEN" /\ now < breaker.nextAttemptTime
                /\ run[p].pc = "idle" /\ run'[p] # run[p]
                => /\ run'[p].pc = "idle"
                   /\ run'[p].last = "CircuitOpen"
                   /\ breaker' = breaker]_vars

\* The breaker has opened after five failures in a row, the cooldown is
\* running, and a call made since was turned away with CircuitOpen.
C22_Witness ==
    /\ breaker.state = "OPEN" /\ now < breaker.nextAttemptTime
    /\ faults = 5
    /\ \E p \in Procs :
          /\ run[p].last = "CircuitOpen"
          /\ run[p].at + 60000 >= breaker.nextAttemptTime
          /\ run[p].at < breaker.nextAttemptTime

CircuitIsOpen == breaker.state = "OPEN" /\ now < breaker.nextAttemptTime

\* C27: with the breaker OPEN, the retry-wrapped synchronization fails with
\* CircuitOpen at its first attempt, whatever the upsert would have answered,
\* and is not attempted again; saveRegistration then reports a partial
\* success: the authoritative record stays, nothing reaches the external
\* target, one SyncErrorRecord is appended and the batch goes on.
C27_CircuitOpenIsPartialSuccess ==
    /\ [](CircuitIsOpen =>
            \A outs \in AttemptSeqs :
                RetryThroughBreaker(breaker, now, outs, 1) =
                    [cb |-> breaker, result |-> "CircuitOpen", attempts |-> 1])
    /\ [][\A p \in Procs :
            CircuitIsOpen /\ run[p].pc = "sync" /\ run'[p].pc # "sync" =>
                LET reg == CurrentReg(run[p])
                    n == Len(run[p].results)
                IN  /\ breaker' = breaker
                    /\ airtable' = airtable
                    /\ seasonRegs' = seasonRegs /\ HasRecord(reg)
                    /\ Len(run'[p].results) = n + 1
                    /\ run'[p].results[n + 1] = Result("partial", "ok", "failed")
                    /\ run'[p].pc \in {"batch", "return"}
                    /\ syncErrors' = syncErrors (+) SetToBag(
                          {SyncError(reg.orderId, "AIRTABLE_SYNC_FAILED", Identity(reg))})]_vars

\* A registration was saved while the breaker was OPEN: no upsert has failed
\* in this behaviour, yet its result is a partial success.
C27_Witness ==
    /\ CircuitIsOpen
    /\ faults = 0
    /\ \E p \in Procs : \E i \in 1..Len(run[p].results) :
          /\ run[p].results[i] = Result("partial", "ok", "failed")
          /\ HasRecord(run[p].toSave[i])
          /\ Key(run[p].toSave[i]) \notin airtable

\* -------------------------------------------------------- donation claims
\* processDonations has finished with one donation line item of run p.
DonationStep(p) ==
    /\ run[p].pc = "donations"
    /\ run[p].don # << >>
    /\ run'[p].don # run[p].don

\* C28: a donation synchronization that fails (saveDonation answers failure
\* or rejects, or the audit insert rejects) never ends the run, and the
\* donation-synced flag is set once the line item is done with.
C28_DonationFailureNeverFatal ==
    [][\A p \in Procs :
          DonationStep(p) /\ donations' = donations =>
              /\ run'[p].pc # "done"
              /\ donationSynced']_vars

\* saveDonation has been called for a donation of the order: it succeeded, or
\* its failure was logged.
DonationTried(orderId) ==
    \/ CopiesIn(orderId, donations) > 0
    \/ \E e \in BagToSet(syncErrors) : e.orderId = orderId /\ e.who = "donor"

\* C29: the donation flag is per order: no donation of an order is
\* synchronized twice, and a run that gets the lock of an order none of whose
\* donations was tried yet goes through all the donation line items of that
\* order, whatever other orders the session has handled.
C29_DonationFlagPerOrder ==
    /\ [](\A order \in DonorOrders :
            CopiesIn(order._id, donations) <= Len(DonationItems(order)))
    /\ [][\A p \in Procs :
            /\ run[p].pc = "getOrder" /\ run'[p].pc = "donations"
            /\ ~DonationTried(run'[p].order._id)
            => run'[p].don = DonationItems(run'[p].order)]_vars

\* ------------------------------------------------------ malformed orders
\* getOrder resolved to nothing or to an order without _id.
BadOrder(order) == ~order.loaded \/ order._id = Nil

\* C30: a run whose order is missing, or has no _id, ends at once: it takes no
\* lock, leaves the session, every collection and the processed markers as
\* they are, and does nothing afterwards.
C30_BadOrderRejected ==
    /\ [](\A p \in Procs : run[p].outcome = "badorder" =>
            /\ run[p].pc = "done"
            /\ ~run[p].acquired /\ ~run[p].wrote /\ ~run[p].marked
            /\ ~run[p].batchInvoked /\ run[p].notified = 0
            /\ \A o \in OrderIds : processingLocks[o] # p)
    /\ [][\A p \in Procs :
            run[p].pc = "getOrder" /\ run'[p].pc # "getOrder" /\ BadOrder(run'[p].order) =>
                /\ run'[p].outcome = "badorder"
                /\ UNCHANGED << session, stores, history >>]_vars

\* A run was handed an order without _id while registrations were queued and
\* backed up, and ended without touching them.
C30_Witness ==
    /\ regQueue # << >> /\ Len(pendingRegs) > 0
    /\ \E p \in Procs :
          /\ run[p].outcome = "badorder"
          /\ run[p].order.loaded /\ run[p].order._id = Nil
          /\ \A i \in 1..Len(pendingRegs) : pendingRegs[i].status = "pending"

\* --------------------------------------------------------- checkout claims
\* C31: whenever the Pay handler has added the product to the cart and gone to
\* the cart page, it has inserted, earlier in the same run, a
\* PendingRegistrations record with status pending that holds the queue.
C31_BackedUpBeforeCheckout ==
    \A p \in Procs :
        run[p].pc = "cart" =>
            /\ run[p].backup \in 1..Len(pendingRegs)
            /\ pendingRegs[run[p].backup].status = "pending"
            /\ Parse(pendingRegs[run[p].backup].registrations) = run[p].queue

\* ------------------------------------------------------ step order claims
\* The place of a handler position in START -> LOCK_ACQUIRED ->
\* DONATIONS_PROCESSED -> INTENTS_LOADED -> MATCHED -> SAVED -> CLEANED_UP -> DONE.
StepRank(pc) ==
    CASE pc = "idle" -> 0
      [] pc = "getOrder" -> 1
      [] pc = "donations" -> 2
      [] pc \in {"loadQuery", "loadCheck", "loadUpdate"} -> 3
      [] pc = "nodata" -> 4
      [] pc \in {"batch", "insert", "sync"} -> 5
      [] pc = "return" -> 6
      [] pc \in {"cleanQuery", "cleanUpdate"} -> 7
      [] pc = "done" -> 8

\* C32: a run only moves forward through lock, donations, loading, matching,
\* batch save, cleanup and the processed marker; an order is marked processed
\* only by a run that holds its lock and whose batch save and cleanup have
\* both returned, and never by a run that aborted or threw.
C32_StepsInOrder ==
    /\ [](\A p \in Procs :
            /\ run[p].marked =>
                  /\ run[p].acquired /\ run[p].batchInvoked /\ run[p].cleaned
                  /\ run[p].outcome = "completed"
            /\ run[p].cleaned => run[p].batchInvoked
            /\ run[p].batchInvoked => run[p].acquired
            /\ StepRank(run[p].pc) \in 2..7 => run[p].acquired)
    /\ [][/\ \A p \in Procs : StepRank(run'[p].pc) >= StepRank(run[p].pc)
          /\ processedOrders' # processedOrders =>
                \E p \in Procs :
                    /\ run[p].pc \in {"return", "cleanQuery", "cleanUpdate"}
                    /\ processingLocks[run[p].order._id] = p
                    /\ run[p].batchInvoked
                    /\ Len(run[p].results) = Len(run[p].toSave)
                    /\ run'[p].cleaned /\ run'[p].marked /\ run'[p].pc = "done"
                    /\ processedOrders' = processedOrders \cup {run[p].order._id}]_vars

\* A run that recovered the queue from the backup store went through every
\* step and marked order o1, whose donation was processed first.
C32_Witness ==
    \E p \in Procs :
        /\ run[p].pc = "done" /\ run[p].marked /\ run[p].source = "cms"
        /\ run[p].order._id = "o1" /\ "o1" \in processedOrders
        /\ donationSynced

\* ------------------------------------------------ recovery retry claims
\* Run q claimed a BackupRecord for the order, ended without completing it,
\* and the record is still in processing.
LeftClaimed(q, orderId) ==
    /\ run[q].pc = "done" /\ run[q].outcome # "completed"
    /\ run[q].order._id = orderId
    /\ run[q].claimed \in 1..Len(pendingRegs)
    /\ pendingRegs[run[q].claimed].status = "processing"

\* C33: after a run claimed a BackupRecord and aborted or threw before
\* cleanup, a later invocation for the same order that finds the session
\* queue empty recovers the intents from the backup store: it does not end in
\* the data-loss path.
C33_ClaimedThenAbortedIsRetryable ==
    [][\A p \in Procs :
          run[p].pc # "nodata" /\ run'[p].pc = "nodata" =>
              ~\E q \in Procs \ {p} : LeftClaimed(q, run'[p].order._id)]_vars

\* The orders for which an intent of BackupRecord i has an authoritative
\* record: the orders the record's intents were reconciled for.
ReconciledOrders(i) ==
    {rec.orderId : rec \in
        {r \in BagToSet(seasonRegs) :
            \E k \in 1..Len(Parse(pendingRegs[i].registrations)) :
                Identity(Parse(pendingRegs[i].registrations)[k]) = Identity(r)}}

\* C34: recovery goes through the buyer's pending records of the recency
\* window, latest first; it takes a candidate only if the candidate's own
\* order has no authoritative record, and passes over a candidate only if the
\* candidate's own order has one.
C34_RecoverySelectsByOwnOrder ==
    [][\A p \in Procs :
          run[p].pc = "loadCheck" /\ run'[p].cands # run[p].cands =>
              IF run'[p].pc = "loadUpdate"
              THEN ReconciledOrders(Head(run[p].cands)) = {}
              ELSE ReconciledOrders(Head(run[p].cands)) # {}]_vars

\* C36: recovery never returns to a run the intents of a BackupRecord that
\* were already reconciled for another order of the buyer, whether or not the
\* earlier run had claimed the record.
C36_NoStaleReuse ==
    [][\A p \in Procs :
          run[p].pc = "loadUpdate" /\ run'[p].pc # "loadUpdate" /\ run'[p].source = "cms"
              => ReconciledOrders(run[p].claimed) \subseteq {run[p].order._id}]_vars

\* C35: the BackupRecord a run's cleanup moves to completed is the record
\* that run claimed while loading, also when the buyer has another record in
\* processing; and whether or not the update succeeds, the order is marked
\* processed.
C35_CleanupCompletesOwnClaim ==
    [][\A p \in Procs :
          run[p].pc = "cleanUpdate" /\ run'[p].pc # "cleanUpdate" =>
              /\ \A i \in 1..Len(pendingRegs) :
                    pendingRegs[i].status # "completed" /\ pendingRegs'[i].status = "completed"
                        => i = run[p].claimed
              /\ run'[p].marked
              /\ run[p].order._id \in processedOrders']_vars

\* C37: whenever a run marks its order processed, at least one of the
\* registrations it handed to the batch save has a record in
\* SeasonRegistration: an order whose batch save failed for every
\* registration is not marked.
C37_ProcessedOrderHasRegistration ==
    [][\A p \in Procs :
          ~run[p].marked /\ run'[p].marked =>
              \E k \in 1..Len(run[p].toSave) : HasRecord(run[p].toSave[k])']_vars

\* C38: a run that finds the session queue non-empty takes it with source
\* 'session' and leaves the backup store alone: loading neither queries nor
\* updates PendingRegistrations, the run's cleanup does not look for a record
\* to complete, and a BackupRecord changes status only in a run that went to
\* the backup store.
C38_SessionSourceLeavesBackupStore ==
    /\ [](\A p \in Procs :
            run[p].source = "session"
            => run[p].pc \notin {"loadQuery", "loadCheck", "loadUpdate",
                                 "cleanQuery", "cleanUpdate"})
    /\ [][\A p \in Procs :
            /\ run[p].pc = "donations" /\ run[p].don = << >>
            /\ run'[p].pc # "donations" /\ Len(regQueue) > 0
            => /\ run'[p].source = "session"
               /\ pendingRegs' = pendingRegs]_vars
    /\ [][\A i \in 1..Len(pendingRegs) :
            pendingRegs'[i].status # pendingRegs[i].status
            => \E p \in Procs :
                  /\ run[p].pc \in {"loadUpdate", "cleanUpdate"}
                  /\ run'[p].source = "cms"]_vars

\* A run that loaded the queue from the session has cleaned up and marked its
\* order while the buyer's BackupRecord is still pending.
C38_Witness ==
    \E p \in Procs :
        /\ run[p].pc = "done" /\ run[p].source = "session"
        /\ run[p].cleaned /\ run[p].marked
        /\ \E i \in 1..Len(pendingRegs) :
              /\ pendingRegs[i].userId = run[p].order.buyerId
              /\ pendingRegs[i].status = "pending"

\* C39: the processing lock is per order.  An invocation for an unprocessed
\* order whose own lock is free acquires it and goes on, whatever locks are
\* held for other orders; and marking one order processed changes the
\* processed marker of no other order.
C39_LockPerOrder ==
    /\ [][\A p \in Procs :
            /\ run[p].pc = "getOrder" /\ run'[p].pc # "getOrder"
            /\ run'[p].order._id \in OrderIds
            /\ ~isOrderProcessed(run'[p].order._id)
            /\ processingLocks[run'[p].order._id] = 0
            => /\ run'[p].pc = "donations"
               /\ processingLocks' =
                     [processingLocks EXCEPT ![run'[p].order._id] = p]]_vars
    /\ [][\A a \in OrderIds :
            ~isOrderProcessed(a) /\ isOrderProcessed(a)'
            => \A b \in OrderIds \ {a} : isOrderProcessed(b)' = isOrderProcessed(b)]_vars

\* While one run holds the lock for o1 and is still working, another run has
\* acquired the lock for o2 and gone on; or o1 was marked processed while a
\* run for the unprocessed o2 is under way.
C39_Witness ==
    \E p, q \in Procs :
        /\ p # q
        /\ run[q].order._id = "o2" /\ run[q].pc \notin {"idle", "getOrder", "done"}
        /\ processingLocks["o2"] = q /\ ~isOrderProcessed("o2")
        /\ run[p].order._id = "o1" /\ run[p].acquired
        /\ \/ processingLocks["o1"] = p /\ run[p].pc \notin {"idle", "getOrder", "done"}
           \/ isOrderProcessed("o1") /\ run[p].marked

\* ------------------------------------------------ division status claim
LookupsOutstanding == \E p \in Procs : run.lookups[p].pc # "idle"

\* C40: on the registration page, once every outstanding division lookup has
\* completed, divisionRegistrationStatus is the status of the division of the
\* player and sport now selected; and handleRegisterClick, called then, never
\* adds to the queue a registration for a division whose status is closed.
C40_StatusOfLatestSelection ==
    /\ [](/\ run.onPage /\ ~LookupsOutstanding
          /\ run.selectedPlayerId # Nil /\ run.sportDrop # Nil
          => run.divisionRegistrationStatus =
                Trim(RegistrationStatusOf(
                         DivisionOf(PlayerAge(run.selectedPlayerId), run.sportDrop))))
    /\ [][Len(regQueue') > Len(regQueue) /\ ~LookupsOutstanding
            => ToLowerCase(Trim(RegistrationStatusOf(
                                    regQueue'[Len(regQueue')].division))) # "closed"]_vars

====
